---- MODULE Spec2Model ----
(***************************************************************************)
(* A model of WinJS.UI._CommandingSurface: the open/close lifecycle, the   *)
(* staged command layout pipeline, the priority partition of the primary   *)
(* commands and the projection of the overflowing commands into the        *)
(* overflow area.                                                          *)
(*                                                                         *)
(* Every operator named after a method of the class takes the "world" w    *)
(* (the record of all the variables) and yields the world after the call,  *)
(* so that a method that calls other methods is their composition, in the  *)
(* order of the source.  WinJS promises run their continuations            *)
(* synchronously once fulfilled, and onShow/onHide return Promise.wrap(),  *)
(* so a transition only ever waits for a lifecycle event handler: the      *)
(* machine states BeforeShow, Showing, BeforeHide and Hiding are the       *)
(* moments at which the beforeshow, aftershow, beforehide and afterhide    *)
(* handlers are running.                                                   *)
(*                                                                         *)
(* JavaScript evaluates the receiver and the arguments of a call before    *)
(* the call: With(e, f) evaluates e once and applies f to its value.       *)
(***************************************************************************)
EXTENDS Integers, Sequences, FiniteSets, TLC

VARIABLES
    machine,    \* the ShowHideMachine owned by the surface (this._machine)
    cs,         \* the private fields of the _CommandingSurface
    dom,        \* what the surface has rendered (this._dom and its elements)
    env,        \* the host element, the command objects and the binding lists
    trace       \* history: the lifecycle calls made and the events fired

vars == <<machine, cs, dom, env, trace>>

----------------------------------------------------------------------------
(* Bounds of the model *)

MaxCommands == 3        \* number of command objects
MaxCalls == 3           \* lifecycle calls recorded in the history
MaxThrows == 1          \* errors recorded in the history

----------------------------------------------------------------------------
(* Constants of the program *)

\* CommandLayoutPipeline
newDataStage == 3
measuringStage == 2
layoutStage == 1
idle == 0

\* the widths the stylesheet gives the elements of the action area
actionAreaCommandWidth == 68
actionAreaSeparatorWidth == 34
actionAreaOverflowButtonWidth == 32

typeSeparator == "separator"
typeContent == "content"
typeButton == "button"
typeToggle == "toggle"
typeFlyout == "flyout"

primaryCommandSection == "primary"
secondaryCommandSection == "secondary"

defaultClosedDisplayMode == "compact"
defaultOpened == FALSE
defaultOrientation == "top"

ClosedDisplayMode == {"none", "minimal", "compact", "full"}

closedDisplayModeClassMap(mode) ==
    CASE mode = "none" -> "win-commandingsurface-closeddisplaynone"
      [] mode = "minimal" -> "win-commandingsurface-closeddisplayminimal"
      [] mode = "compact" -> "win-commandingsurface-closeddisplaycompact"
      [] mode = "full" -> "win-commandingsurface-closeddisplayfull"

openedClass == "win-commandingsurface-opened"
closedClass == "win-commandingsurface-closed"
emptyCommandingSurfaceCssClass == "win-commandingsurface-empty"
topToBottomClass == "win-commandingsurface-toptobottom"
bottomToTopClass == "win-commandingsurface-bottomtotop"
menuContainsToggleCommandClass == "win-menu-containstogglecommand"
menuContainsFlyoutCommandClass == "win-menu-containsflyoutcommand"

EventNames == [beforeShow |-> "beforeshow", afterShow |-> "aftershow",
               beforeHide |-> "beforehide", afterHide |-> "afterhide"]

----------------------------------------------------------------------------
(* Values *)

\* A JavaScript value that may be undefined: <<>> is undefined, <<x>> is x.
undefined == <<>>
Some(x) == <<x>>

Last(s) == s[Len(s)]

RECURSIVE SeqSum(_)
SeqSum(s) == IF s = <<>> THEN 0 ELSE s[1] + SeqSum(Tail(s))

Range(s) == {s[i] : i \in 1 .. Len(s)}

\* f applied to the value of e
With(e, f(_)) == CHOOSE r \in {f(x) : x \in {e}} : TRUE

----------------------------------------------------------------------------
(* The world: all the variables as one record *)

World == [machine |-> machine, cs |-> cs, dom |-> dom, env |-> env, trace |-> trace]

Commit(w0) ==
    \E w \in {w0} :
        /\ machine' = w.machine
        /\ cs' = w.cs
        /\ dom' = w.dom
        /\ env' = w.env
        /\ trace' = w.trace

----------------------------------------------------------------------------
(* Reading the world *)

Command(w, id) == w.env.commands[id]

\* BindingList.forEach over this.data
DataItems(w) == w.env.items[w.cs._data[1]]

----------------------------------------------------------------------------
(* Rendering the opened/closed state and the closed display mode *)

addClass(classes, className) == classes \cup {className}
removeClass(classes, className) == classes \ {className}

_applyOrientation(w, nextOrientation) ==
    IF nextOrientation = "bottom"
    THEN [w EXCEPT !.dom.root = addClass(removeClass(@, topToBottomClass), bottomToTopClass)]
    ELSE \* "top", and "auto", which applies Orientation.top
         [w EXCEPT !.dom.root = addClass(removeClass(@, bottomToTopClass), topToBottomClass)]

\* the rendering of the open state, were it to leave the other marker on the root
_renderOpened_adding(w) ==
    IF w.cs._updateDomImpl_renderedState.opened # Some(w.cs._isOpenedMode)
    THEN [(IF w.cs._isOpenedMode
           THEN _applyOrientation([w EXCEPT !.dom.root = addClass(@, openedClass)],
                                  w.cs._orientation)
           ELSE [w EXCEPT !.dom.root = addClass(@, closedClass)])
            EXCEPT !.cs._updateDomImpl_renderedState.opened = Some(w.cs._isOpenedMode)]
    ELSE w

\* if (rendered.opened !== this._isOpenedMode) { ... }
_renderOpened(w) ==
    IF w.cs._updateDomImpl_renderedState.opened # Some(w.cs._isOpenedMode)
    THEN [(IF w.cs._isOpenedMode
           THEN _applyOrientation(
                    [w EXCEPT !.dom.root = addClass(removeClass(@, closedClass), openedClass)],
                    w.cs._orientation)
           ELSE [w EXCEPT !.dom.root = addClass(removeClass(@, openedClass), closedClass)])
            EXCEPT !.cs._updateDomImpl_renderedState.opened = Some(w.cs._isOpenedMode)]
    ELSE w

_renderClosedDisplayMode_keeping(w) ==
    IF w.cs._updateDomImpl_renderedState.closedDisplayMode # w.cs._closedDisplayMode
    THEN [w EXCEPT !.dom.root = addClass(@, closedDisplayModeClassMap(w.cs._closedDisplayMode[1])),
                   !.cs._updateDomImpl_renderedState.closedDisplayMode = w.cs._closedDisplayMode]
    ELSE w
\* if (rendered.closedDisplayMode !== this.closedDisplayMode) { ... }
_renderClosedDisplayMode(w) ==
    LET rendered == w.cs._updateDomImpl_renderedState
    IN  IF rendered.closedDisplayMode # w.cs._closedDisplayMode
        THEN LET removed == IF rendered.closedDisplayMode = undefined
                            THEN w.dom.root
                            ELSE removeClass(w.dom.root, closedDisplayModeClassMap(rendered.closedDisplayMode[1]))
             IN  [w EXCEPT !.dom.root = addClass(removed, closedDisplayModeClassMap(w.cs._closedDisplayMode[1])),
                           !.cs._updateDomImpl_renderedState.closedDisplayMode = w.cs._closedDisplayMode]
        ELSE w

_updateDomImpl_renderDisplayMode(w0) ==
    With(With(w0, _renderOpened), _renderClosedDisplayMode)

----------------------------------------------------------------------------
(* Invalidation of the layout pipeline *)

Max(a, b) == IF a >= b THEN a ELSE b

\* _dataDirty, were it to ask for the layout alone once measurements exist
_dataDirty_reusing(w) ==
    [w EXCEPT !.cs._nextLayoutStage =
                  Max(IF w.cs._cachedMeasurements = <<>> THEN newDataStage ELSE layoutStage, @)]
_dataDirty(w) == [w EXCEPT !.cs._nextLayoutStage = Max(newDataStage, @)]
_meaurementsDirty(w) == [w EXCEPT !.cs._nextLayoutStage = Max(measuringStage, @)]
\* _layoutDirty, were it to assign the stage
_layoutDirty_assigning(w) == [w EXCEPT !.cs._nextLayoutStage = layoutStage]
_layoutDirty(w) == [w EXCEPT !.cs._nextLayoutStage = Max(layoutStage, @)]

----------------------------------------------------------------------------
(* Stage newData: the action area's elements follow the data *)

\* _writeProfilerMark: env.marks is undefined when no profiler takes the marks;
\* of the marks a profiler takes, it holds those the stages of the pipeline
\* have written since the latest run of the pipeline began
_writeProfilerMark(w, text) ==
    IF w.env.marks = undefined THEN w ELSE [w EXCEPT !.env.marks[1] = Append(@, text)]

\* The animation collaborator is handed (added, deleted, affected); the surface
\* itself keeps only the new order of the elements.
_processNewData_appending(w) ==
    [ok |-> TRUE, w |-> [w EXCEPT !.dom.actionArea = @ \o DataItems(w)]]

\* parent.appendChild(element): an element that is a child already is moved
appendChild(children, element) ==
    Append(SelectSeq(children, LAMBDA child : child # element), element)

\* elements.forEach((element) => parent.appendChild(element))
RECURSIVE appendChildren(_, _)
appendChildren(children, elements) ==
    IF elements = <<>> THEN children
    ELSE appendChildren(appendChild(children, Head(elements)), Tail(elements))

\* _processNewData, were it to leave the current elements where they are
_processNewData_unremoved(w) ==
    [ok |-> TRUE,
     w |-> [w EXCEPT !.dom.actionArea = appendChildren(@, DataItems(w)),
                     !.dom.actionAreaLastChild = "overflowButton"]]

\* dom.actionArea holds the command elements of the action area, which are
\* its children after the spacer; actionAreaLastChild tells what its last
\* child is
_processNewData(w0) ==
    LET w == _writeProfilerMark(w0, "_processNewData,info")
        newElements == DataItems(w)
        \* Remove current ICommand elements
        removed == [w EXCEPT !.dom.actionArea = <<>>]
        \* Add new ICommand elements in the right order
        added == [removed EXCEPT !.dom.actionArea = appendChildren(@, newElements),
                                 !.dom.actionAreaLastChild =
                                     IF Len(newElements) > 0 THEN "command" ELSE @]
    IN  [ok |-> TRUE,
         w |-> [added EXCEPT \* the overflow button is always the last element
                             !.dom.actionAreaLastChild = "overflowButton",
                             !.dom.root = IF Len(newElements) > 0
                                          THEN removeClass(@, emptyCommandingSurfaceCssClass)
                                          ELSE addClass(@, emptyCommandingSurfaceCssClass)]]

----------------------------------------------------------------------------
(* Stage measuring: the measurement cache *)

\* _ElementUtilities.getTotalWidth of a command's element, displayed
getTotalWidth(w, id) ==
    CASE Command(w, id).type = typeContent -> Command(w, id).width
      [] Command(w, id).type = typeSeparator -> actionAreaSeparatorWidth
      [] OTHER -> actionAreaCommandWidth

\* document.body.contains(root) && actionArea.offsetWidth > 0
canMeasure(w) == w.env.inDocument /\ w.env.displayed /\ w.env.width > 0

\* the first element of s that satisfies the test, as a set of at most one
FirstOfType(w, s, types) ==
    LET hits == {i \in 1 .. Len(s) : Command(w, s[i]).type \in types}
    IN  IF hits = {} THEN {} ELSE {s[CHOOSE i \in hits : \A j \in hits : i <= j]}

_measure(w0) ==
    With(_writeProfilerMark(w0, "_measure,info"), LAMBDA w :
    IF canMeasure(w)
    THEN LET primary == w.cs._primaryCommands
             contents == {id \in Range(primary) : Command(w, id).type = typeContent}
             separators == FirstOfType(w, primary, {typeSeparator})
             standards == FirstOfType(w, primary, {typeButton, typeToggle, typeFlyout})
         IN  [ok |-> TRUE,
              w |-> [w EXCEPT !.cs._cachedMeasurements = Some(
                       [contentCommandWidths |-> [id \in contents |-> getTotalWidth(w, id)],
                        separatorWidth |-> IF separators = {} THEN 0
                                           ELSE getTotalWidth(w, CHOOSE id \in separators : TRUE),
                        standardCommandWidth |-> IF standards = {} THEN 0
                                                 ELSE getTotalWidth(w, CHOOSE id \in standards : TRUE),
                        overflowButtonWidth |-> actionAreaOverflowButtonWidth,
                        actionAreaContentBoxWidth |-> w.env.width])]]
    ELSE [ok |-> FALSE, w |-> w])

----------------------------------------------------------------------------
(* Stage layout: the priority partition *)

_getCommandWidth(w, id) ==
    LET m == w.cs._cachedMeasurements[1]
    IN  CASE Command(w, id).type = typeContent -> m.contentCommandWidths[id]
          [] Command(w, id).type = typeSeparator -> m.separatorWidth
          [] OTHER -> m.standardCommandWidth

RECURSIVE _getCommandsInfoLoop_incrementing(_, _, _)
_getCommandsInfoLoop_incrementing(w, i, currentAssignedPriority) ==
    IF i < 1 THEN <<>>
    ELSE LET id == w.cs._primaryCommands[i]
             unprioritized == Command(w, id).priority = undefined
             priority == IF unprioritized THEN currentAssignedPriority
                         ELSE Command(w, id).priority[1]
             width == IF w.dom.display[id] = "none" THEN 0 ELSE _getCommandWidth(w, id)
         IN  _getCommandsInfoLoop_incrementing(w, i - 1,
                 IF unprioritized THEN currentAssignedPriority + 1 ELSE currentAssignedPriority)
             \o <<[command |-> id, width |-> width, priority |-> priority]>>

\* The loop of _getCommandsInfo: i walks the primary commands back to front.
RECURSIVE _getCommandsInfoLoop(_, _, _)
_getCommandsInfoLoop(w, i, currentAssignedPriority) ==
    IF i < 1 THEN <<>>
    ELSE LET id == w.cs._primaryCommands[i]
             unprioritized == Command(w, id).priority = undefined
             priority == IF unprioritized THEN currentAssignedPriority
                         ELSE Command(w, id).priority[1]
             width == IF w.dom.display[id] = "none" THEN 0 ELSE _getCommandWidth(w, id)
         IN  _getCommandsInfoLoop(w, i - 1,
                 IF unprioritized THEN currentAssignedPriority - 1 ELSE currentAssignedPriority)
             \o <<[command |-> id, width |-> width, priority |-> priority]>>

\* _getCommandsInfo, were the first priority it gives away to be -1
_getCommandsInfo_decrementingFirst(w) ==
    _getCommandsInfoLoop(w, Len(w.cs._primaryCommands), -1)

_getCommandsInfo(w) == _getCommandsInfoLoop(w, Len(w.cs._primaryCommands), 0)

\* Array.prototype.sort with the comparator priority1 - priority2 (stable)
RECURSIVE SortByPriority(_)
SortByPriority(infos) ==
    IF infos = <<>> THEN <<>>
    ELSE LET rest == SortByPriority(Tail(infos))
             before == SelectSeq(rest, LAMBDA c : c.priority < infos[1].priority)
             after == SelectSeq(rest, LAMBDA c : c.priority >= infos[1].priority)
         IN  before \o <<infos[1]>> \o after

_maxPriorityLoop_unreserved(sorted, i, availableWidth, hasSecondaryCommands, overflowButtonWidth) ==
    LET fitting == {k \in 0 .. Len(sorted) :
                       SeqSum([j \in 1 .. k |-> sorted[j].width]) <= availableWidth}
        k == CHOOSE k \in fitting : \A other \in fitting : other <= k
    IN  IF k = Len(sorted) THEN undefined ELSE Some(sorted[k + 1].priority - 1)
\* the loop, were maxPriority to be the priority of the command that does not fit
RECURSIVE _maxPriorityLoop_keeping(_, _, _, _, _)
_maxPriorityLoop_keeping(sorted, i, availableWidth, hasSecondaryCommands, overflowButtonWidth) ==
    IF i > Len(sorted) THEN undefined
    ELSE LET remaining == availableWidth - sorted[i].width
             overflowButtonSpace == IF hasSecondaryCommands \/ i < Len(sorted)
                                    THEN overflowButtonWidth ELSE 0
         IN  IF remaining - overflowButtonSpace < 0
             THEN Some(sorted[i].priority)
             ELSE _maxPriorityLoop_keeping(sorted, i + 1, remaining, hasSecondaryCommands,
                                           overflowButtonWidth)

\* The loop that finds maxPriority; undefined stands for Number.MAX_VALUE.
RECURSIVE _maxPriorityLoop(_, _, _, _, _)
_maxPriorityLoop(sorted, i, availableWidth, hasSecondaryCommands, overflowButtonWidth) ==
    IF i > Len(sorted) THEN undefined
    ELSE LET remaining == availableWidth - sorted[i].width
             overflowButtonSpace == IF hasSecondaryCommands \/ i < Len(sorted)
                                    THEN overflowButtonWidth ELSE 0
         IN  IF remaining - overflowButtonSpace < 0
             THEN Some(sorted[i].priority - 1)
             ELSE _maxPriorityLoop(sorted, i + 1, remaining, hasSecondaryCommands,
                                   overflowButtonWidth)

_locate_swapped(commandsInfo, maxPriority) ==
    LET fits(c) == maxPriority = undefined \/ c.priority <= maxPriority[1]
        ids(infos) == [i \in 1 .. Len(infos) |-> infos[i].command]
    IN  [actionArea |-> ids(SelectSeq(commandsInfo, LAMBDA c : ~ fits(c))),
         overflowArea |-> ids(SelectSeq(commandsInfo, fits))]

\* the forEach of _getPrimaryCommandsLocation, were it to compare with <
_locate_strict(commandsInfo, maxPriority) ==
    LET fits(c) == maxPriority = undefined \/ c.priority < maxPriority[1]
        ids(infos) == [i \in 1 .. Len(infos) |-> infos[i].command]
    IN  [actionArea |-> ids(SelectSeq(commandsInfo, fits)),
         overflowArea |-> ids(SelectSeq(commandsInfo, LAMBDA c : ~ fits(c)))]

\* the commands of commandsInfo on either side of maxPriority
_locate(commandsInfo, maxPriority) ==
    LET fits(c) == maxPriority = undefined \/ c.priority <= maxPriority[1]
        ids(infos) == [i \in 1 .. Len(infos) |-> infos[i].command]
    IN  [actionArea |-> ids(SelectSeq(commandsInfo, fits)),
         overflowArea |-> ids(SelectSeq(commandsInfo, LAMBDA c : ~ fits(c)))]

_getPrimaryCommandsLocation(w) ==
    LET hasSecondaryCommands == Len(w.cs._secondaryCommands) > 0
        m == w.cs._cachedMeasurements[1]
    IN  With(_getCommandsInfo(w), LAMBDA commandsInfo :
        With(SortByPriority(commandsInfo), LAMBDA sortedCommandsInfo :
        With(_maxPriorityLoop(sortedCommandsInfo, 1, m.actionAreaContentBoxWidth,
                              hasSecondaryCommands, m.overflowButtonWidth),
             LAMBDA maxPriority : _locate(commandsInfo, maxPriority))))

----------------------------------------------------------------------------
(* Stage layout: separators, the overflow button and the menu projection *)

_hideSeparatorsIfNeeded_leading(types) ==
    {i \in 1 .. Len(types) :
        types[i] = typeSeparator /\ (i = 1 \/ types[i - 1] = typeSeparator)}
\* _hideSeparatorsIfNeeded on a list whose entries have the given types: the
\* indexes of the entries it hides.
_hideSeparatorsIfNeeded(types) ==
    LET prevType(i) == IF i = 1 THEN typeSeparator ELSE types[i - 1]
        leadingOrConsecutive ==
            {i \in 1 .. Len(types) : types[i] = typeSeparator /\ prevType(i) = typeSeparator}
        trailing ==
            {i \in 1 .. Len(types) : \A j \in i .. Len(types) : types[j] = typeSeparator}
    IN  leadingOrConsecutive \cup trailing

_projectAsMenuCommand(w, id) ==
    LET originalCommand == Command(w, id)
    IN  [type |-> IF originalCommand.type = typeContent THEN typeFlyout ELSE originalCommand.type,
         selected |-> originalCommand.selected,
         display |-> "",
         _originalICommand |-> id]

\* beforeInvoke, were it to leave the original command as it is
beforeInvoke_projectionOnly(w, menuCommand) ==
    [w EXCEPT !.cs._chosenCommand = Some(menuCommand._originalICommand)]

\* the beforeInvoke callback _projectAsMenuCommand gives the menu command
beforeInvoke(w, menuCommand) ==
    LET chosen == menuCommand._originalICommand
    IN  [w EXCEPT !.cs._chosenCommand = Some(chosen),
                  !.env.commands[chosen].selected =
                      IF Command(w, chosen).type = typeToggle THEN ~ @ ELSE @]

\* the separator the surface puts between the overflowed and the secondary commands
MenuSeparator == [type |-> typeSeparator, selected |-> FALSE, display |-> "", _originalICommand |-> 0]

_visibleSecondaryCommands_all(w) == w.cs._secondaryCommands

\* the secondary commands that get an entry: if (!command.hidden) { ... }
_visibleSecondaryCommands(w) ==
    SelectSeq(w.cs._secondaryCommands, LAMBDA id : ~ Command(w, id).hidden)

\* _layoutCommands from "Project overflowing and secondary commands into the
\* overflowArea as MenuCommands" on
_projectIntoOverflowArea(w, overflowCommands) ==
    LET secondary == w.cs._secondaryCommands
        visibleSecondary == _visibleSecondaryCommands(w)
        projected == overflowCommands \o visibleSecondary
        hasToggleCommands == \E id \in Range(projected) : Command(w, id).type = typeToggle
        hasFlyoutCommands == \E id \in Range(projected) : Command(w, id).type = typeFlyout
        setClass(classes, on, className) ==
            IF on THEN addClass(classes, className) ELSE removeClass(classes, className)
        shown(menuCommandProjections) ==
            LET hiddenEntries == _hideSeparatorsIfNeeded(
                                     [i \in 1 .. Len(menuCommandProjections) |->
                                         menuCommandProjections[i].type])
            IN  [i \in 1 .. Len(menuCommandProjections) |->
                    IF i \in hiddenEntries
                    THEN [menuCommandProjections[i] EXCEPT !.display = "none"]
                    ELSE menuCommandProjections[i]]
    IN  [w EXCEPT
           !.dom.overflowArea =
               With([i \in 1 .. Len(overflowCommands) |->
                        _projectAsMenuCommand(w, overflowCommands[i])]
                    \o (IF Len(overflowCommands) > 0 /\ Len(secondary) > 0
                        THEN <<MenuSeparator>> ELSE <<>>)
                    \o [i \in 1 .. Len(visibleSecondary) |->
                           _projectAsMenuCommand(w, visibleSecondary[i])],
                    shown),
           !.dom.overflowAreaClasses =
               setClass(setClass(@, hasToggleCommands, menuContainsToggleCommandClass),
                        hasFlyoutCommands, menuContainsFlyoutCommandClass)]

\* _layoutCommands once the primary commands are located, up to the set up of
\* the custom content flyout
_placeCommands(w, primaryCommandsLocation) ==
    LET secondary == w.cs._secondaryCommands
        inActionArea == primaryCommandsLocation.actionArea
        overflowCommands == primaryCommandsLocation.overflowArea
        hiddenSeparators ==
            LET hide == _hideSeparatorsIfNeeded([i \in 1 .. Len(inActionArea) |->
                                                    Command(w, inActionArea[i]).type])
            IN  {inActionArea[i] : i \in hide}
        showOverflowButton == Len(overflowCommands) > 0 \/ Len(secondary) > 0
        isCustomContent(id) == Command(w, id).type = typeContent
        hasCustomContent == \E id \in Range(overflowCommands) \cup Range(secondary) :
                                isCustomContent(id)
    IN  [w EXCEPT
           !.dom.display =
               [id \in DOMAIN @ |-> IF \/ id \in hiddenSeparators
                                       \/ id \in Range(overflowCommands)
                                       \/ id \in Range(secondary)
                                    THEN "none" ELSE @[id]],
           !.dom.overflowButton = IF showOverflowButton THEN "" ELSE "none",
           !.cs._contentFlyout = @ \/ hasCustomContent,
           !.dom.contentFlyoutAttached = @ \/ (hasCustomContent /\ ~ w.cs._contentFlyout)]

\* _layoutCommands: the primary commands that are not hidden are displayed
_showPrimaryCommands(w) ==
    [w EXCEPT !.dom.display =
        [id \in DOMAIN @ |-> IF id \in Range(w.cs._primaryCommands)
                             THEN (IF Command(w, id).hidden THEN "none" ELSE "")
                             ELSE @[id]]]

_layoutCommands(w0) ==
    With(_showPrimaryCommands(_writeProfilerMark(w0, "_layoutCommands,StartTM")), LAMBDA w1 :
    With(_getPrimaryCommandsLocation(w1), LAMBDA primaryCommandsLocation :
    With(_placeCommands(w1, primaryCommandsLocation), LAMBDA w2 :
         [ok |-> TRUE,
          w |-> _writeProfilerMark(
                    _projectIntoOverflowArea(w2, primaryCommandsLocation.overflowArea),
                    "_layoutCommands,StopTM")])))

----------------------------------------------------------------------------
(* The layout pipeline: newDataStage -> measuringStage -> layoutStage -> idle *)

\* one turn of the while loop: the stage currentStage runs on the world w
_runStage(w, currentStage) ==
    CASE currentStage = newDataStage -> [next |-> measuringStage, done |-> _processNewData(w)]
      [] currentStage = measuringStage -> [next |-> layoutStage, done |-> _measure(w)]
      [] currentStage = layoutStage -> [next |-> idle, done |-> _layoutCommands(w)]

\* the loop, were it to leave a failed stage behind
RECURSIVE _updateCommandsLoop_dropping(_, _)
_updateCommandsLoop_dropping(w, nextStage) ==
    IF nextStage = idle THEN [w EXCEPT !.cs._nextLayoutStage = nextStage]
    ELSE With(_runStage(w, nextStage), LAMBDA stage :
              IF ~ stage.done.ok
              THEN [stage.done.w EXCEPT !.cs._nextLayoutStage = stage.next]
              ELSE _updateCommandsLoop_dropping(stage.done.w, stage.next))

RECURSIVE _updateCommandsLoop(_, _)
_updateCommandsLoop(w, nextStage) ==
    IF nextStage = idle THEN [w EXCEPT !.cs._nextLayoutStage = nextStage]
    ELSE With(_runStage(w, nextStage), LAMBDA stage :
              IF ~ stage.done.ok
              THEN \* a stage failed: track it to be restarted by the next run
                   [stage.done.w EXCEPT !.cs._nextLayoutStage = nextStage]
              ELSE _updateCommandsLoop(stage.done.w, stage.next))

\* the run, were it to begin with the new data whatever is pending
_updateDomImpl_updateCommands_whole(w0) ==
    With(IF w0.env.marks = undefined THEN w0 ELSE [w0 EXCEPT !.env.marks = Some(<<>>)],
         LAMBDA w : _updateCommandsLoop(w, newDataStage))

_updateDomImpl_updateCommands(w0) ==
    With(IF w0.env.marks = undefined THEN w0 ELSE [w0 EXCEPT !.env.marks = Some(<<>>)],
         LAMBDA w : _updateCommandsLoop(w, w.cs._nextLayoutStage))

_updateDomImpl(w) == _updateDomImpl_updateCommands(_updateDomImpl_renderDisplayMode(w))

----------------------------------------------------------------------------
(* The ShowHideMachine (Utilities/_ShowHideMachine), as the surface uses it *)

RestStates == {"Init", "Hidden", "Shown", "Disposed"}
ShowStates == {"BeforeShow", "Showing"}
HideStates == {"BeforeHide", "Hiding"}

NewMachine == [state |-> "Init", initHidden |-> TRUE, hideIsPending |-> FALSE,
               showIsPending |-> FALSE, updateDomPending |-> FALSE]

\* ShowHideMachine.hidden (get)
machine_hidden(w) ==
    CASE w.machine.state = "Init" -> w.machine.initHidden
      [] w.machine.state \in {"Showing", "Shown", "BeforeHide"} -> FALSE
      [] OTHER -> TRUE

\* _CommandingSurface.opened (get)
opened_negated(w) == machine_hidden(w)
opened(w) == ~ machine_hidden(w)

\* Appends one entry to the history.
Log(w0, kind, name) ==
    With(w0, LAMBDA w :
        [w EXCEPT !.trace = Append(@, [kind |-> kind, name |-> name,
                                       state |-> w.machine.state, opened |-> opened(w)])])

\* ShowHideMachine._fireEvent: the handlers run when the event is dispatched
_fireEvent(w, eventName) == Log(w, "event", eventName)

\* ShowHideMachine.show
machine_show(w0) ==
    With(w0, LAMBDA w :
        CASE w.machine.state = "Init" -> [w EXCEPT !.machine.initHidden = FALSE]
          [] w.machine.state = "Hidden" ->
                _fireEvent([w EXCEPT !.machine.state = "BeforeShow"], EventNames.beforeShow)
          [] w.machine.state \in HideStates -> [w EXCEPT !.machine.showIsPending = TRUE]
          [] OTHER -> w)

\* ShowHideMachine.hide
machine_hide(w0) ==
    With(w0, LAMBDA w :
        CASE w.machine.state = "Init" -> [w EXCEPT !.machine.initHidden = TRUE]
          [] w.machine.state = "Shown" ->
                _fireEvent([w EXCEPT !.machine.state = "BeforeHide"], EventNames.beforeHide)
          [] w.machine.state \in ShowStates -> [w EXCEPT !.machine.hideIsPending = TRUE]
          [] OTHER -> w)

\* ShowHideMachine.hidden (set)
machine_set_hidden(w, value) == IF value THEN machine_hide(w) ELSE machine_show(w)

\* ShowHideMachine.dispose
machine_dispose(w) == [w EXCEPT !.machine = [NewMachine EXCEPT !.state = "Disposed"]]

----------------------------------------------------------------------------
(* The callbacks the surface gives its machine *)

\* onShow, were it to ask for a layout
onShow_escalating(w0) ==
    With(w0, LAMBDA w :
        _applyOrientation(_updateDomImpl(_layoutDirty([w EXCEPT !.cs._isOpenedMode = TRUE])),
                          w.cs._orientation))

onShow(w0) ==
    With(w0, LAMBDA w :
        _applyOrientation(_updateDomImpl([w EXCEPT !.cs._isOpenedMode = TRUE]),
                          w.cs._orientation))

onHide(w) == _updateDomImpl([w EXCEPT !.cs._isOpenedMode = FALSE])

onUpdateDom_asHide(w) == _updateDomImpl([w EXCEPT !.cs._isOpenedMode = FALSE])
onUpdateDom(w) == _updateDomImpl(w)

onUpdateDomWithIsShown(w, isShown) == _updateDomImpl([w EXCEPT !.cs._isOpenedMode = isShown])

----------------------------------------------------------------------------
(* The ShowHideMachine, continued: what runs the callbacks *)

\* ShowHideMachine.updateDom
machine_updateDom(w0) ==
    With(w0, LAMBDA w :
        CASE w.machine.state \in {"Hidden", "Shown"} -> onUpdateDom(w)
          [] w.machine.state \in ShowStates \cup HideStates ->
                [w EXCEPT !.machine.updateDomPending = TRUE]
          [] OTHER -> w)    \* Init: postponed until initialized; Disposed: inert

\* ShowHideMachine.initialized: leaves Init without firing events
machine_initialized(w0) ==
    With(w0, LAMBDA w :
        IF w.machine.state = "Init"
        THEN [onUpdateDomWithIsShown(w, ~ w.machine.initHidden)
                EXCEPT !.machine.state = IF w.machine.initHidden THEN "Hidden" ELSE "Shown"]
        ELSE w)

\* A transition settles in a rest state: what was requested meanwhile is applied.
Settle(w0, rest) ==
    With(w0, LAMBDA w :
        LET pending == w.machine
            w1 == [w EXCEPT !.machine = [NewMachine EXCEPT !.state = rest]]
            w2 == IF pending.updateDomPending THEN machine_updateDom(w1) ELSE w1
        IN  CASE rest = "Shown" /\ pending.hideIsPending -> machine_hide(w2)
              [] rest = "Hidden" /\ pending.showIsPending -> machine_show(w2)
              [] OTHER -> w2)

\* after the beforeshow handlers have run
BeforeShow_done(w, canceled) ==
    IF canceled THEN Settle(Log(w, "veto", EventNames.beforeShow), "Hidden")
    ELSE _fireEvent(onShow([w EXCEPT !.machine.state = "Showing"]), EventNames.afterShow)

\* after the aftershow handlers have run
Showing_done(w) == Settle(w, "Shown")

\* after the beforehide handlers have run
BeforeHide_done(w, canceled) ==
    IF canceled THEN Settle(Log(w, "veto", EventNames.beforeHide), "Shown")
    ELSE _fireEvent(onHide([w EXCEPT !.machine.state = "Hiding"]), EventNames.afterHide)

\* after the afterhide handlers have run
Hiding_done(w) == Settle(w, "Hidden")

----------------------------------------------------------------------------
(* The surface's methods and properties *)

\* opened (set)
set_opened_around_machine(w, value) ==
    IF value THEN _fireEvent(onShow(w), EventNames.afterShow)
    ELSE _fireEvent(onHide(w), EventNames.afterHide)
set_opened(w, value) == machine_set_hidden(w, ~ value)

open_eagerly(w) == machine_show(onShow(w))
open_as_toggle(w) == set_opened(w, ~ opened(w))
open(w) == machine_show(w)

close_eagerly(w) == machine_hide(onHide(w))
close(w) == machine_hide(w)

\* closedDisplayMode (get)
get_closedDisplayMode(w) == w.cs._closedDisplayMode
\* closedDisplayMode (set)
set_closedDisplayMode(w0, value) ==
    With(w0, LAMBDA w :
        LET isChangingState == Some(value) # w.cs._closedDisplayMode
        IN  IF value \in ClosedDisplayMode /\ isChangingState
            THEN machine_updateDom([w EXCEPT !.cs._closedDisplayMode = Some(value)])
            ELSE w)

_dataUpdated(w0) ==
    With(w0, LAMBDA w :
        LET items == DataItems(w)
            isSecondary(id) == Command(w, id).section = "secondary"
        IN  machine_updateDom(_dataDirty(
                [w EXCEPT !.cs._primaryCommands = SelectSeq(items, LAMBDA id : ~ isSecondary(id)),
                          !.cs._secondaryCommands = SelectSeq(items, isSecondary)])))

\* value instanceof BindingList.List: values are references, and the binding
\* lists are the ones the world holds
isBindingList(w, value) == value \in DOMAIN w.env.items

\* throw new _ErrorFromName(name, ...): the caller observes the error
throw(w, name) == Log(w, "throw", name)

set_data_unchecked(w0, value) ==
    With(w0, LAMBDA w :
        IF Some(value) # w.cs._data
        THEN IF ~ isBindingList(w, value)
             THEN throw([w EXCEPT !.cs._data = Some(value)], "WinJS.UI._CommandingSurface.BadData")
             ELSE _dataUpdated([w EXCEPT !.cs._data = Some(value),
                                         !.cs.dataListeners = {value}])
        ELSE w)

\* data (set)
set_data(w0, value) ==
    With(w0, LAMBDA w :
        IF Some(value) # w.cs._data
        THEN IF ~ isBindingList(w, value)
             THEN throw(w, "WinJS.UI._CommandingSurface.BadData")
             ELSE _dataUpdated([w EXCEPT !.cs._data = Some(value),
                                         \* _removeDataListeners, _addDataListeners
                                         !.cs.dataListeners = {value}])
        ELSE w)

\* _refresh, were it to schedule a job for every notification
_refresh_unbatched(w) ==
    [w EXCEPT !.cs._refreshPending = TRUE, !.env.scheduled = @ + 1]

\* _refresh: the listener of the data's change events; env.scheduled counts the
\* jobs the scheduler holds
_refresh(w) ==
    IF ~ w.cs._refreshPending
    THEN [w EXCEPT !.cs._refreshPending = TRUE,
                   \* Scheduler.schedule(..., Priority.high)
                   !.env.scheduled = @ + 1]
    ELSE w

\* the job _refresh schedules: batches the calls of _dataUpdated
_refreshJob(w0) ==
    With([w0 EXCEPT !.env.scheduled = @ - 1], LAMBDA w :
        IF w.cs._refreshPending /\ ~ w.cs._disposed
        THEN _dataUpdated([w EXCEPT !.cs._refreshPending = FALSE])
        ELSE w)

\* child["winControl"] instanceof _Command.AppBarCommand; 0 is an element the
\* surface creates itself
isAppBarCommand(w, child) ==
    child \in DOMAIN w.env.commands /\ "section" \in DOMAIN w.env.commands[child]

\* _getDataFromDOMElements: the children of the action area that are commands,
\* as a new binding list; thrown tells whether MustContainCommands is thrown
_getDataFromDOMElements(w) ==
    LET \* _initializeDom has moved the children of the host into the action
        \* area and has appended the spacer and the overflow button
        children == w.env.children \o <<0, 0>>
        commands == SelectSeq(children, LAMBDA child : isAppBarCommand(w, child))
    IN  [thrown |-> \E i \in DOMAIN children :
                       /\ ~ isAppBarCommand(w, children[i])
                       /\ "overflowButton" \notin DOMAIN w.dom,    \* !this._dom.overflowButton
         value |-> Len(w.env.items) + 1,
         w |-> [w EXCEPT !.env.items = Append(@, commands)]]

\* dispose after this._machine.dispose()
_teardown(w) ==
    [w EXCEPT \* _resizeNotifier.unsubscribe
              !.cs.resizeSubscribed = FALSE,
              \* this._contentFlyout.dispose(), and its element removed
              !.dom.contentFlyoutDisposals = IF w.cs._contentFlyout THEN @ + 1 ELSE @,
              !.dom.contentFlyoutAttached = FALSE,
              \* _Dispose.disposeSubTree(this._dom.root)
              !.dom.subTreeDisposals = @ + 1]

dispose_without_machine(w0) ==
    With(w0, LAMBDA w :
        IF w.cs._disposed THEN w
        ELSE _teardown([w EXCEPT !.cs._disposed = TRUE]))
dispose_unguarded(w0) ==
    With(w0, LAMBDA w :
        With(machine_dispose([w EXCEPT !.cs._disposed = TRUE]), _teardown))
dispose(w0) ==
    With(w0, LAMBDA w :
        IF w.cs._disposed THEN w
        ELSE With(machine_dispose([w EXCEPT !.cs._disposed = TRUE]), _teardown))

\* forceLayout, were it to trust the measurements it has
forceLayout_unmeasured(w) == machine_updateDom(_layoutDirty(w))
forceLayout(w) == machine_updateDom(_meaurementsDirty(w))

_resizeHandler(w0) ==
    With(w0, LAMBDA w :
        IF w.env.inDocument /\ w.env.displayed /\ w.env.width > 0      \* root.offsetWidth
        THEN LET currentActionAreaWidth == w.env.width
             IN  IF /\ w.cs._cachedMeasurements # undefined
                    /\ w.cs._cachedMeasurements[1].actionAreaContentBoxWidth #
                           currentActionAreaWidth
                 THEN machine_updateDom(_layoutDirty(
                         [w EXCEPT !.cs._cachedMeasurements[1].actionAreaContentBoxWidth =
                                       currentActionAreaWidth]))
                 ELSE w
        ELSE w)

----------------------------------------------------------------------------
(* Construction *)

\* The world in which the constructor starts: the host element, the command
\* objects and the binding lists exist, the surface does not yet.
Before(host, commands, items) ==
    [machine |-> NewMachine,
     cs |-> [_disposed |-> FALSE, _primaryCommands |-> <<>>, _secondaryCommands |-> <<>>,
             _refreshPending |-> FALSE, _nextLayoutStage |-> idle,
             _isOpenedMode |-> defaultOpened, _orientation |-> defaultOrientation,
             _closedDisplayMode |-> undefined, _data |-> undefined, dataListeners |-> {},
             _cachedMeasurements |-> undefined, _contentFlyout |-> FALSE,
             _chosenCommand |-> undefined, _rtl |-> FALSE,
             _updateDomImpl_renderedState |-> [closedDisplayMode |-> undefined, opened |-> undefined],
             resizeSubscribed |-> FALSE],
     dom |-> [root |-> {}, actionArea |-> <<>>, actionAreaLastChild |-> "overflowButton",
              overflowButton |-> "", overflowArea |-> <<>>,
              overflowAreaClasses |-> {}, display |-> [id \in DOMAIN commands |-> ""],
              contentFlyoutAttached |-> FALSE, contentFlyoutDisposals |-> 0,
              subTreeDisposals |-> 0],
     env |-> [inDocument |-> host.inDocument, displayed |-> host.displayed, width |-> host.width,
              children |-> IF "children" \in DOMAIN host THEN host.children ELSE <<>>,
              commands |-> commands, items |-> items, scheduled |-> 0,
              rtl |-> IF "rtl" \in DOMAIN host THEN host.rtl ELSE FALSE,
              activeElement |-> <<"body">>,
              marks |-> IF "marks" \in DOMAIN host THEN host.marks ELSE undefined],
     trace |-> <<>>]

\* the constructor from "Event handlers" on
_constructed(w4) ==
    With([w4 EXCEPT !.cs.resizeSubscribed = TRUE], LAMBDA w5 :
         \* Exit the Init state (_inDom completes at once for a host in the document).
         IF w5.env.inDocument
         THEN machine_initialized([w5 EXCEPT !.cs._rtl = w5.env.rtl])
         ELSE w5)

\* the constructor without options.data: the data comes from the children of
\* the host, and setOptions assigns it after the options that were given
_constructFromDOMElements(w1, options) ==
    With(_getDataFromDOMElements(w1), LAMBDA data :
        IF data.thrown
        THEN throw(w1, "WinJS.UI._CommandingSurface.MustContainCommands")
        ELSE _constructed(set_data(
                 set_closedDisplayMode(set_opened(data.w, options.opened),
                                       options.closedDisplayMode),
                 data.value)))

\* new _CommandingSurface(element, options)
constructor(w0, options) ==
    LET \* Initialize public properties.
        w1 == set_opened(set_closedDisplayMode(w0, defaultClosedDisplayMode), defaultOpened)
        \* _Control.setOptions
        w2 == set_data(w1, options.data)
        w3 == set_opened(w2, options.opened)
        w4 == set_closedDisplayMode(w3, options.closedDisplayMode)
    IN  IF "data" \notin DOMAIN options        \* if (!options.data)
        THEN _constructFromDOMElements(w1, options)
        ELSE _constructed(w4)

----------------------------------------------------------------------------
(* The inputs: command objects, binding lists, hosts and options *)

\* new Command(element, { type, section, priority, hidden, selected }); width
\* is the total width of the element of a content command.
NewCommand(type, section, priority, hidden, width) ==
    [type |-> type, section |-> section, priority |-> priority, hidden |-> hidden,
     selected |-> FALSE, width |-> width]

Button(priority) == NewCommand(typeButton, primaryCommandSection, priority, FALSE, 0)

\* the commands a list is made of
CommandKinds ==
    {Button(undefined), Button(Some(-2)), Button(Some(1)),
     NewCommand(typeButton, primaryCommandSection, undefined, TRUE, 0),
     NewCommand(typeContent, primaryCommandSection, undefined, FALSE, 10),
     NewCommand(typeSeparator, primaryCommandSection, undefined, FALSE, 0),
     NewCommand(typeButton, secondaryCommandSection, undefined, FALSE, 0)}

\* the lists of at most n commands of the given kinds
CommandLists(kinds, n) == UNION {[1 .. k -> kinds] : k \in 0 .. n}

\* the lists the lifecycle is exercised with: no command, one button, and a
\* button followed by custom content in the secondary section
LifecycleCommandLists ==
    {<<>>, <<Button(undefined)>>,
     <<Button(undefined), NewCommand(typeContent, secondaryCommandSection, undefined, FALSE, 10)>>}

\* widths of the host element, in px
Widths == {0, 10, 68, 78, 100, 136, 168, 204, 1000}

\* new BindingList.List(commands): the list is binding list 1 of the world
OneList(commands) == <<[i \in 1 .. Len(commands) |-> i]>>

Host(inDocument, width) == [inDocument |-> inDocument, displayed |-> TRUE, width |-> width]

Options(isOpened, closedDisplayMode) ==
    [data |-> 1, opened |-> isOpened, closedDisplayMode |-> closedDisplayMode]

\* the variables hold the world w
Start(w0) ==
    \E w \in {w0} :
        /\ machine = w.machine
        /\ cs = w.cs
        /\ dom = w.dom
        /\ env = w.env
        /\ trace = w.trace

----------------------------------------------------------------------------
(* The lifecycle specification: a surface is constructed and then used *)

Init ==
    \E commands \in LifecycleCommandLists, inDocument \in BOOLEAN, isOpened \in BOOLEAN :
        Start(constructor(Before(Host(inDocument, 1000), commands, OneList(commands)),
                          Options(isOpened, defaultClosedDisplayMode)))

Calls(t) == SelectSeq(t, LAMBDA e : e.kind = "call")

\* a caller, or a handler of a lifecycle event that is running, may make another call
CanCall == Len(Calls(trace)) < MaxCalls

CallOpen == CanCall /\ Commit(open(Log(World, "call", "open")))

CallClose == CanCall /\ Commit(close(Log(World, "call", "close")))

SetOpened(value) ==
    /\ CanCall
    /\ Commit(set_opened(Log(World, "call", IF value THEN "opened=true" ELSE "opened=false"),
                         value))

CallDispose == CanCall /\ Commit(dispose(Log(World, "call", "dispose")))

\* the handlers of beforeshow return; canceled: one of them called preventDefault
BeforeShowHandled(canceled) ==
    /\ machine.state = "BeforeShow"
    /\ Commit(BeforeShow_done(World, canceled))

AfterShowHandled ==
    /\ machine.state = "Showing"
    /\ Commit(Showing_done(World))

BeforeHideHandled(canceled) ==
    /\ machine.state = "BeforeHide"
    /\ Commit(BeforeHide_done(World, canceled))

AfterHideHandled ==
    /\ machine.state = "Hiding"
    /\ Commit(Hiding_done(World))

ForceLayout == \E w \in {forceLayout(World)} : Commit(w)

\* the host element is inserted into the document: _inDom completes
Inserted ==
    /\ ~ env.inDocument
    /\ Commit(machine_initialized([World EXCEPT !.env.inDocument = TRUE,
                                                !.cs._rtl = env.rtl]))

Next ==
    \/ CallOpen
    \/ CallClose
    \/ \E value \in BOOLEAN : SetOpened(value)
    \/ CallDispose
    \/ \E canceled \in BOOLEAN : BeforeShowHandled(canceled)
    \/ AfterShowHandled
    \/ \E canceled \in BOOLEAN : BeforeHideHandled(canceled)
    \/ AfterHideHandled
    \/ ForceLayout
    \/ Inserted

Spec == Init /\ [][Next]_vars

----------------------------------------------------------------------------
(* The layout specification: a closed surface is constructed in the document *)
(* over some commands, and its host is resized                               *)

InitLayout ==
    \E commands \in CommandLists(CommandKinds, MaxCommands), width \in Widths :
        Start(constructor(Before(Host(TRUE, width), commands, OneList(commands)),
                          Options(FALSE, defaultClosedDisplayMode)))

\* the host gets another width: the resize notifier runs the handler
Resize(width) ==
    /\ width # env.width
    /\ cs.resizeSubscribed
    /\ Commit(_resizeHandler([World EXCEPT !.env.width = width]))

NextLayout ==
    \/ \E width \in Widths : Resize(width)
    \/ ForceLayout

SpecLayout == InitLayout /\ [][NextLayout]_vars

----------------------------------------------------------------------------
(* Properties of the lifecycle *)

Entry(kind, name, state, isOpened) ==
    [kind |-> kind, name |-> name, state |-> state, opened |-> isOpened]

IsPrefix(s, t) == Len(s) <= Len(t) /\ \A i \in 1 .. Len(s) : s[i] = t[i]

IsCall(e, names) == e.kind = "call" /\ e.name \in names
IsEvent(e, name) == e.kind = "event" /\ e.name = name
IsVeto(e, name) == e.kind = "veto" /\ e.name = name

\* the events fired and the vetoes, in order
Fired(t) == SelectSeq(t, LAMBDA e : e.kind \in {"event", "veto"})

NoVeto == \A i \in DOMAIN trace : trace[i].kind # "veto"

\* this step is a call of one of the named methods
Requested(names) ==
    /\ Len(trace') > Len(trace)
    /\ IsCall(trace'[Len(trace) + 1], names)

RenderedOpened == openedClass \in dom.root /\ closedClass \notin dom.root /\ cs._isOpenedMode
RenderedClosed == closedClass \in dom.root /\ openedClass \notin dom.root /\ ~ cs._isOpenedMode

\* the history of open() followed by close() on an initialized, closed surface
OpenCloseHistory ==
    <<Entry("call", "open", "Hidden", FALSE),
      Entry("event", "beforeshow", "BeforeShow", FALSE),
      Entry("event", "aftershow", "Showing", TRUE),
      Entry("call", "close", "Shown", TRUE),
      Entry("event", "beforehide", "BeforeHide", TRUE),
      Entry("event", "afterhide", "Hiding", FALSE)>>

\* open() is called on an initialized, closed surface; close(), if it is called,
\* is called once open() has returned; nothing else is called, no handler vetoes
OpenThenClose ==
    /\ Len(trace) > 0
    /\ IsCall(trace[1], {"open"}) /\ trace[1].state = "Hidden"
    /\ NoVeto
    /\ LET calls == Calls(trace)
       IN  /\ Len(calls) <= 2
           /\ Len(calls) = 2 =>
                 IsCall(calls[2], {"close"}) /\ calls[2].state \in {"Hidden", "Shown"}

\* C1: open() followed by close() on an initialized, closed surface, with no
\* veto, fires exactly beforeshow, aftershow, beforehide, afterhide in this
\* order, and opened reads false before open() and during beforeshow, true
\* during aftershow, after open() returns and during beforehide, false during
\* afterhide and after close() returns.
C1_OpenCloseEvents ==
    OpenThenClose =>
        /\ IsPrefix(trace, OpenCloseHistory)
        /\ machine.state \in RestStates =>
              /\ Len(trace) \in {3, 6}
              /\ opened(World) = (Len(trace) = 3)

C1_Witness == trace = OpenCloseHistory /\ machine.state = "Hidden" /\ ~ opened(World)

\* C2: when a beforeshow handler cancels the event, whether open() or
\* opened = true asked for it, opened stays false, no aftershow fires (nothing
\* fires before the next call) and the surface stays Hidden and rendered closed.
C2_BeforeShowCanceled ==
    \A i \in DOMAIN trace :
        IsVeto(trace[i], "beforeshow") =>
            /\ i < Len(trace) =>
                  /\ trace[i + 1].kind = "call"
                  /\ trace[i + 1].state = "Hidden" /\ ~ trace[i + 1].opened
            /\ i = Len(trace) =>
                  machine.state = "Hidden" /\ ~ opened(World) /\ RenderedClosed

C2_Witness ==
    /\ Len(trace) > 0
    /\ IsVeto(Last(trace), "beforeshow")
    /\ \E i, j \in DOMAIN trace :
          /\ IsCall(trace[i], {"open"}) /\ i + 2 <= Len(trace)
          /\ IsVeto(trace[i + 2], "beforeshow")
          /\ IsCall(trace[j], {"opened=true"}) /\ j + 2 <= Len(trace)
          /\ IsVeto(trace[j + 2], "beforeshow")

\* C3: when a beforehide handler cancels the event, whether close() or
\* opened = false asked for it, opened stays true, no afterhide fires (nothing
\* fires before the next call) and the surface stays Shown and rendered opened.
C3_BeforeHideCanceled ==
    \A i \in DOMAIN trace :
        IsVeto(trace[i], "beforehide") =>
            /\ i < Len(trace) =>
                  /\ trace[i + 1].kind = "call"
                  /\ trace[i + 1].state = "Shown" /\ trace[i + 1].opened
            /\ i = Len(trace) =>
                  machine.state = "Shown" /\ opened(World) /\ RenderedOpened

C3_Witness ==
    /\ Len(trace) > 0
    /\ IsVeto(Last(trace), "beforehide")
    /\ \E i, j \in DOMAIN trace :
          /\ IsCall(trace[i], {"close"}) /\ i + 2 <= Len(trace)
          /\ IsVeto(trace[i + 2], "beforehide")
          /\ IsCall(trace[j], {"opened=false"}) /\ j + 2 <= Len(trace)
          /\ IsVeto(trace[j + 2], "beforehide")

OpenRequests == {"open", "opened=true"}
CloseRequests == {"close", "opened=false"}

\* open() or opened = true on a surface that is shown or being shown, or
\* close() or opened = false on one that is hidden or being hidden
RedundantRequest ==
    \/ Requested(OpenRequests) /\ machine.state \in {"Shown"} \cup ShowStates
    \/ Requested(CloseRequests) /\ machine.state \in {"Hidden"} \cup HideStates

\* the step records the call in the history and changes nothing else
OnlyRecorded ==
    /\ Len(trace') = Len(trace) + 1
    /\ machine'.state = machine.state /\ cs' = cs /\ dom' = dom /\ env' = env
    /\ (opened(World))' = opened(World)

\* open() is called twice on an initialized, closed surface, nothing else is
\* called, and no handler vetoes
OpenedTwice ==
    /\ NoVeto
    /\ Len(Calls(trace)) = 2
    /\ \A i \in 1 .. 2 : IsCall(Calls(trace)[i], {"open"})
    /\ Calls(trace)[1].state = "Hidden"

Count(t, name) == Len(SelectSeq(t, LAMBDA e : IsEvent(e, name)))

OpenedTwiceFiresOnce ==
    OpenedTwice =>
        /\ Count(trace, "beforeshow") = 1
        /\ Count(trace, "aftershow") <= 1
        /\ machine.state = "Shown" => Count(trace, "aftershow") = 1
        /\ Count(trace, "beforehide") = 0 /\ Count(trace, "afterhide") = 0

\* C4: a redundant request (open while Shown or Showing, close while Hidden or
\* Hiding, by method or by property) fires no lifecycle event and leaves the
\* lifecycle state and opened unchanged; open() called twice fires beforeshow
\* and aftershow once each.
C4_RedundantRequests ==
    /\ [][RedundantRequest => OnlyRecorded]_vars
    /\ []OpenedTwiceFiresOnce

C4_Witness ==
    /\ OpenedTwice
    /\ Calls(trace)[2].state \in {"Shown"} \cup ShowStates
    /\ machine.state = "Shown"
    /\ Count(trace, "aftershow") = 1

\* every after-event and every veto comes right after its before-event, and a
\* before-event is followed by nothing but its after-event or its veto
Paired(f) ==
    \A i \in DOMAIN f :
        /\ IsEvent(f[i], "aftershow") \/ IsVeto(f[i], "beforeshow") =>
              i > 1 /\ IsEvent(f[i - 1], "beforeshow")
        /\ IsEvent(f[i], "afterhide") \/ IsVeto(f[i], "beforehide") =>
              i > 1 /\ IsEvent(f[i - 1], "beforehide")
        /\ IsEvent(f[i], "beforeshow") /\ i < Len(f) =>
              IsEvent(f[i + 1], "aftershow") \/ IsVeto(f[i + 1], "beforeshow")
        /\ IsEvent(f[i], "beforehide") /\ i < Len(f) =>
              IsEvent(f[i + 1], "afterhide") \/ IsVeto(f[i + 1], "beforehide")

\* the transition in flight, if any, is the one whose event fired last
InFlight ==
    LET f == Fired(trace)
    IN  /\ machine.state = "BeforeShow" => Len(f) > 0 /\ IsEvent(Last(f), "beforeshow")
        /\ machine.state = "Showing" => Len(f) > 0 /\ IsEvent(Last(f), "aftershow")
        /\ machine.state = "BeforeHide" => Len(f) > 0 /\ IsEvent(Last(f), "beforehide")
        /\ machine.state = "Hiding" => Len(f) > 0 /\ IsEvent(Last(f), "afterhide")
        /\ machine.state \in {"Hidden", "Shown"} /\ Len(f) > 0 =>
              Last(f).kind = "veto" \/ Last(f).name \in {"aftershow", "afterhide"}

\* C5: whatever open(), close() and opened assignments are made, also from a
\* handler or while a transition is in flight, the lifecycle events are paired
\* and never interleaved, and at most one transition is in flight.
C5_Serialized == Paired(Fired(trace)) /\ InFlight

\* a close request made while the surface was being shown was applied later
C5_Witness ==
    \E i, j \in DOMAIN trace :
        /\ i < j
        /\ IsCall(trace[i], CloseRequests) /\ trace[i].state \in ShowStates
        /\ IsEvent(trace[j], "afterhide")

\* C6: dispose() from any lifecycle state ends in Disposed with the surface
\* marked disposed, and from then on no call fires a lifecycle event or leaves
\* Disposed.
C6_Disposed ==
    /\ [][Requested({"dispose"}) => (machine'.state = "Disposed" /\ cs'._disposed)]_vars
    /\ [][machine.state = "Disposed" =>
             (machine'.state = "Disposed" /\ Fired(trace') = Fired(trace))]_vars
    /\ [](cs._disposed => machine.state = "Disposed")

C6_Witness ==
    /\ machine.state = "Disposed"
    /\ \E i \in DOMAIN trace :
          /\ IsCall(trace[i], {"dispose"}) /\ trace[i].state \in ShowStates \cup HideStates
          /\ \E j \in i + 1 .. Len(trace) : IsCall(trace[j], OpenRequests \cup CloseRequests)

\* the teardown has run once if the surface is disposed, and never otherwise
DisposedOnce ==
    /\ dom.subTreeDisposals = (IF cs._disposed THEN 1 ELSE 0)
    /\ dom.contentFlyoutDisposals = (IF cs._disposed /\ cs._contentFlyout THEN 1 ELSE 0)

\* C7: a second dispose() changes nothing and tears nothing down again: the
\* subtree of the surface and the content flyout, if it was created, are
\* disposed exactly once.
C7_DisposeIdempotent ==
    /\ [][Requested({"dispose"}) /\ cs._disposed =>
             (machine' = machine /\ cs' = cs /\ dom' = dom /\ env' = env)]_vars
    /\ []DisposedOnce

C7_Witness ==
    /\ Len(SelectSeq(trace, LAMBDA e : IsCall(e, {"dispose"}))) = 2
    /\ cs._contentFlyout
    /\ dom.contentFlyoutDisposals = 1 /\ dom.subTreeDisposals = 1

----------------------------------------------------------------------------
(* Properties of the layout *)

\* the pipeline has run to its end: the commands are laid out for the cached width
LayoutDone == cs._nextLayoutStage = idle /\ cs._cachedMeasurements # undefined

AvailableWidth == cs._cachedMeasurements[1].actionAreaContentBoxWidth

\* the primary commands that are projected into the overflow area
OverflowedPrimary ==
    {dom.overflowArea[i]._originalICommand : i \in DOMAIN dom.overflowArea}
        \cap Range(cs._primaryCommands)

ActionAreaPrimary == Range(cs._primaryCommands) \ OverflowedPrimary

\* the total width of the primary commands (a hidden command takes no room)
PrimaryWidth ==
    SeqSum([i \in DOMAIN cs._primaryCommands |->
               IF Command(World, cs._primaryCommands[i]).hidden THEN 0
               ELSE getTotalWidth(World, cs._primaryCommands[i])])

HasSecondary == Len(cs._secondaryCommands) > 0

\* C8: when the primary commands, and the overflow button if there are
\* secondary commands, fit in the available width, the layout puts no primary
\* command in the overflow area and hides the overflow button exactly when
\* there is no secondary command.
C8_FittingCommandsStay ==
    (/\ LayoutDone
     /\ PrimaryWidth + (IF HasSecondary THEN actionAreaOverflowButtonWidth ELSE 0)
            <= AvailableWidth)
    => /\ OverflowedPrimary = {}
       /\ (dom.overflowButton = "none") <=> ~ HasSecondary

\* C9: with the commands and their measurements fixed, a layout for a smaller
\* width keeps in the action area only primary commands that were there for
\* the larger width.
C9_MonotoneInWidth ==
    [][(/\ LayoutDone /\ LayoutDone'
        /\ cs'._primaryCommands = cs._primaryCommands
        /\ AvailableWidth' <= AvailableWidth)
       => ActionAreaPrimary' \subseteq ActionAreaPrimary]_vars

\* the primary commands the partition keeps in the action area for a width
PlacedFor(width) ==
    Range(_getPrimaryCommandsLocation(_showPrimaryCommands(
              [World EXCEPT !.cs._cachedMeasurements[1].actionAreaContentBoxWidth = width])
          ).actionArea)

\* the surface is laid out with commands in each area, fewer of them in the
\* action area than the partition keeps there for a larger width
C9_Witness ==
    /\ LayoutDone
    /\ OverflowedPrimary # {} /\ ActionAreaPrimary # {}
    /\ env.width = AvailableWidth
    /\ \E width \in Widths :
          /\ width > AvailableWidth
          /\ ActionAreaPrimary # PlacedFor(width)
          /\ ActionAreaPrimary \subseteq PlacedFor(width)

Unprioritized(i) == Command(World, cs._primaryCommands[i]).priority = undefined
Overflowed(i) == cs._primaryCommands[i] \in OverflowedPrimary

\* the priority of the i-th primary command: its own, or for a command without
\* one, minus the number of commands without one that are declared after it
EffectivePriority(i) ==
    IF Unprioritized(i)
    THEN 0 - Cardinality({k \in DOMAIN cs._primaryCommands : k > i /\ Unprioritized(k)})
    ELSE Command(World, cs._primaryCommands[i]).priority[1]

\* C10: in every layout, a primary command without a priority that overflows
\* is followed only by overflowing commands among those without a priority,
\* and no command with an explicit priority overflows while a command without
\* one, of higher synthesized priority, stays in the action area.
C10_ReverseDeclarationOrder ==
    LayoutDone =>
        \A i, j \in DOMAIN cs._primaryCommands :
            /\ (Unprioritized(i) /\ Unprioritized(j) /\ i < j /\ Overflowed(i)) => Overflowed(j)
            /\ (/\ ~ Unprioritized(i) /\ Unprioritized(j)
                /\ EffectivePriority(i) < EffectivePriority(j)
                /\ ~ Overflowed(j)) => ~ Overflowed(i)

C10_Witness ==
    /\ LayoutDone
    /\ \E i, j, k \in DOMAIN cs._primaryCommands :
          /\ Unprioritized(i) /\ Unprioritized(j) /\ i < j
          /\ ~ Overflowed(i) /\ Overflowed(j)
          /\ ~ Unprioritized(k) /\ EffectivePriority(k) < EffectivePriority(i)
          /\ ~ Overflowed(k)



----------------------------------------------------------------------------
(* The partition in the uniform-width scenario *)

\* the width every primary command has, if they all have the same
UniformWidth == getTotalWidth(World, cs._primaryCommands[1])

\* N primary commands, all displayed, of one width and of pairwise distinct
\* priorities, laid out in a width that is too small for all of them
UniformScenario ==
    /\ LayoutDone
    /\ Len(cs._primaryCommands) >= 1
    /\ \A i \in DOMAIN cs._primaryCommands :
          /\ ~ Command(World, cs._primaryCommands[i]).hidden
          /\ getTotalWidth(World, cs._primaryCommands[i]) = UniformWidth
    /\ \A i, j \in DOMAIN cs._primaryCommands :
          i # j => EffectivePriority(i) # EffectivePriority(j)
    /\ AvailableWidth < Len(cs._primaryCommands) * UniformWidth
                            + (IF HasSecondary THEN actionAreaOverflowButtonWidth ELSE 0)

\* the largest k with k * W + B <= A, and 0 if the overflow button alone does
\* not fit
LargestFitting ==
    LET fitting == {k \in 0 .. Len(cs._primaryCommands) :
                       k * UniformWidth + actionAreaOverflowButtonWidth <= AvailableWidth}
    IN  IF fitting = {} THEN 0 ELSE CHOOSE k \in fitting : \A other \in fitting : other <= k

\* C11: in the uniform-width scenario the action area keeps exactly the
\* largest number k of commands with k * W + B <= A, and they are the k
\* commands of lowest priority.
C11_UniformWidth ==
    UniformScenario =>
        /\ Cardinality(ActionAreaPrimary) = LargestFitting
        /\ \A i, j \in DOMAIN cs._primaryCommands :
              (~ Overflowed(i) /\ Overflowed(j)) => EffectivePriority(i) < EffectivePriority(j)

C11_Witness ==
    /\ UniformScenario
    /\ Len(cs._primaryCommands) = 3
    /\ LargestFitting = 1 /\ Cardinality(ActionAreaPrimary) = 1
    /\ AvailableWidth >= 2 * UniformWidth
    /\ \E i \in DOMAIN cs._primaryCommands : ~ Unprioritized(i) /\ ~ Overflowed(i)

----------------------------------------------------------------------------
(* The projected menu list *)

\* what _layoutCommands got from _getPrimaryCommandsLocation: it asks once the
\* primary commands are displayed again
Located == _getPrimaryCommandsLocation(_showPrimaryCommands(World))

MenuSeparators == {i \in DOMAIN dom.overflowArea : dom.overflowArea[i].type = typeSeparator}

\* the separator the surface adds between the two groups of the menu
SyntheticSeparator == Len(Located.overflowArea) > 0 /\ Len(cs._secondaryCommands) > 0

\* the commands of s that are projected as separators
SeparatorsOf(s) == {i \in DOMAIN s : Command(World, s[i]).type = typeSeparator}

\* C12: in the projected menu list a separator that is leading, trailing or
\* right after another separator is hidden, a separator right after an entry
\* that is not one and with such an entry somewhere after it is shown, and
\* hidden separators stay in the list.
C12_MenuSeparators ==
    LayoutDone =>
        /\ \A i \in MenuSeparators :
              LET collapsed == \/ i = 1
                               \/ i - 1 \in MenuSeparators
                               \/ \A j \in i .. Len(dom.overflowArea) : j \in MenuSeparators
                  internal == /\ i > 1 /\ i - 1 \notin MenuSeparators
                              /\ \E j \in i + 1 .. Len(dom.overflowArea) : j \notin MenuSeparators
              IN  /\ collapsed => dom.overflowArea[i].display = "none"
                  /\ internal => dom.overflowArea[i].display = ""
        /\ Cardinality(MenuSeparators) =
              Cardinality(SeparatorsOf(Located.overflowArea))
              + (IF SyntheticSeparator THEN 1 ELSE 0)
              + Cardinality(SeparatorsOf(SelectSeq(cs._secondaryCommands,
                                LAMBDA id : ~ Command(World, id).hidden)))

\* a menu with a separator that is shown and one that is hidden right after it
C12_Witness ==
    /\ LayoutDone
    /\ \E i, j \in MenuSeparators :
          /\ dom.overflowArea[i].display = ""
          /\ j = i + 1 /\ dom.overflowArea[j].display = "none"
          /\ j < Len(dom.overflowArea)

----------------------------------------------------------------------------
(* The menu specification: as the layout specification, over commands that *)
(* exercise the projection into the overflow area                          *)

MenuCommandKinds ==
    {Button(undefined),
     NewCommand(typeSeparator, primaryCommandSection, undefined, FALSE, 0),
     NewCommand(typeToggle, primaryCommandSection, undefined, FALSE, 0),
     NewCommand(typeButton, secondaryCommandSection, undefined, FALSE, 0),
     NewCommand(typeButton, secondaryCommandSection, undefined, TRUE, 0),
     NewCommand(typeContent, secondaryCommandSection, undefined, FALSE, 10)}

InitMenu ==
    \E commands \in CommandLists(MenuCommandKinds, MaxCommands), width \in Widths :
        Start(constructor(Before(Host(TRUE, width), commands, OneList(commands)),
                          Options(FALSE, defaultClosedDisplayMode)))

SpecMenu == InitMenu /\ [][NextLayout]_vars

\* the command each entry of the overflow area was projected from; 0 for the
\* separator the surface adds itself
MenuOrigins == [i \in DOMAIN dom.overflowArea |-> dom.overflowArea[i]._originalICommand]

\* the position of a command in the data
DeclaredAt(id) == CHOOSE i \in DOMAIN DataItems(World) : DataItems(World)[i] = id

\* C13: after a layout the overflow area holds, in this order, one entry per
\* overflowed primary command in declaration order, one separator of the
\* surface's own exactly when a primary command overflowed and there are
\* secondary commands, and one entry per secondary command that is not
\* hidden, in declaration order.
C13_MenuOrder ==
    LayoutDone =>
        LET overflowed == Located.overflowArea
            secondary == SelectSeq(cs._secondaryCommands, LAMBDA id : ~ Command(World, id).hidden)
            n == Len(overflowed)
            s == IF n > 0 /\ Len(cs._secondaryCommands) > 0 THEN 1 ELSE 0
        IN  /\ Len(dom.overflowArea) = n + s + Len(secondary)
            /\ \A i \in 1 .. n : MenuOrigins[i] = overflowed[i]
            /\ Range(overflowed) = Range(cs._primaryCommands) \ Range(Located.actionArea)
            /\ \A i, j \in 1 .. n : i < j => DeclaredAt(MenuOrigins[i]) < DeclaredAt(MenuOrigins[j])
            /\ s = 1 => MenuOrigins[n + 1] = 0 /\ dom.overflowArea[n + 1].type = typeSeparator
            /\ \A i \in 1 .. Len(secondary) : MenuOrigins[n + s + i] = secondary[i]
            /\ \A i, j \in 1 .. Len(secondary) :
                  i < j => DeclaredAt(secondary[i]) < DeclaredAt(secondary[j])

\* the one primary command overflowed, and of two secondary commands one is hidden
C13_Witness ==
    /\ LayoutDone
    /\ Len(Located.overflowArea) = 1
    /\ Len(cs._secondaryCommands) = 2
    /\ Len(dom.overflowArea) = 3
    /\ MenuOrigins[2] = 0
    /\ MenuOrigins[3] \in Range(cs._secondaryCommands)

----------------------------------------------------------------------------
(* The display mode specification: a surface is constructed, opened and    *)
(* closed, and its closedDisplayMode is assigned                            *)

\* what is assigned to closedDisplayMode: the legal values and one that is not
AssignedDisplayModes == ClosedDisplayMode \cup {"hidden"}

\* the host may have display: none when the surface is constructed
InitDisplayMode ==
    \E inDocument \in BOOLEAN, displayed \in BOOLEAN, isOpened \in BOOLEAN :
        Start(constructor(Before([Host(inDocument, 1000) EXCEPT !.displayed = displayed],
                                 <<Button(undefined)>>, OneList(<<Button(undefined)>>)),
                          Options(isOpened, defaultClosedDisplayMode)))

\* the host is displayed again: it gets a size, the resize notifier runs the handler
Displayed ==
    /\ ~ env.displayed
    /\ Commit(IF cs.resizeSubscribed
              THEN _resizeHandler([World EXCEPT !.env.displayed = TRUE])
              ELSE [World EXCEPT !.env.displayed = TRUE])

SetClosedDisplayMode(value) == \E w \in {set_closedDisplayMode(World, value)} : Commit(w)

NextDisplayMode ==
    \/ \E value \in AssignedDisplayModes : SetClosedDisplayMode(value)
    \/ CallOpen
    \/ CallClose
    \/ CallDispose
    \/ \E canceled \in BOOLEAN : BeforeShowHandled(canceled)
    \/ AfterShowHandled
    \/ \E canceled \in BOOLEAN : BeforeHideHandled(canceled)
    \/ AfterHideHandled
    \/ Inserted
    \/ Displayed

SpecDisplayMode == InitDisplayMode /\ [][NextDisplayMode]_vars

\* the class markers of the closed display modes that the root carries
DisplayModeMarkers ==
    dom.root \cap {closedDisplayModeClassMap(mode) : mode \in ClosedDisplayMode}

\* the display mode is rendered: the machine is at rest and initialized, so
\* that updateDom renders at once
DisplayModeRendered == machine.state \in {"Hidden", "Shown"}

\* assigning a legal value and reading the property back yields the value
ReadsBackAssigned ==
    \A value \in ClosedDisplayMode :
        SetClosedDisplayMode(value) => get_closedDisplayMode(World)' = Some(value)

\* C14: closedDisplayMode reads back the legal value assigned to it, the four
\* values have four different class markers, and once rendered the root
\* carries the marker of the current value and no other.
C14_DisplayModeRoundTrip ==
    /\ [][ReadsBackAssigned]_vars
    /\ [](\A m1, m2 \in ClosedDisplayMode :
             closedDisplayModeClassMap(m1) = closedDisplayModeClassMap(m2) => m1 = m2)
    /\ [](DisplayModeRendered =>
             /\ get_closedDisplayMode(World) # undefined
             /\ DisplayModeMarkers = {closedDisplayModeClassMap(get_closedDisplayMode(World)[1])})
    /\ [](Cardinality(DisplayModeMarkers) <= 1)

\* a mode other than the one the surface is constructed with is rendered
C14_Witness ==
    /\ DisplayModeRendered
    /\ get_closedDisplayMode(World) = Some("full")
    /\ DisplayModeMarkers = {"win-commandingsurface-closeddisplayfull"}

\* this step assigns closedDisplayMode another legal value
ChangesDisplayMode ==
    /\ \E value \in AssignedDisplayModes : SetClosedDisplayMode(value)
    /\ cs'._closedDisplayMode # cs._closedDisplayMode

\* what the root carries besides the marker of the closed display mode
OtherMarkers == dom.root \ {closedDisplayModeClassMap(mode) : mode \in ClosedDisplayMode}

\* C15: changing closedDisplayMode while no transition is in flight fires no
\* lifecycle event and leaves the lifecycle state and opened as they are; the
\* marker of the mode is rendered again and the stages that are pending run.
C15_DisplayModeOnly ==
    [][(DisplayModeRendered /\ ChangesDisplayMode) =>
          /\ trace' = trace
          /\ machine' = machine
          /\ opened(World)' = opened(World)
          /\ cs'._isOpenedMode = cs._isOpenedMode
          /\ OtherMarkers' = OtherMarkers
          /\ cs'._updateDomImpl_renderedState.closedDisplayMode = cs'._closedDisplayMode
          /\ cs'._nextLayoutStage = (IF canMeasure(World) THEN idle ELSE cs._nextLayoutStage)
          /\ cs._nextLayoutStage = idle => dom' = [dom EXCEPT !.root = dom'.root]]_vars

\* the mode has been changed on an opened surface: nothing but open() and
\* its two events is in the history, and the surface is still rendered opened
C15_Witness ==
    /\ machine.state = "Shown" /\ RenderedOpened
    /\ get_closedDisplayMode(World) = Some("minimal")
    /\ DisplayModeMarkers = {"win-commandingsurface-closeddisplayminimal"}
    /\ LayoutDone
    /\ Len(trace) = 3 /\ IsEvent(trace[3], "aftershow")

----------------------------------------------------------------------------
(* The data specification: a surface is constructed over a binding list or *)
(* over the children of its host, and its data is edited and replaced      *)

DataCommandKinds ==
    {Button(undefined), NewCommand(typeButton, secondaryCommandSection, undefined, FALSE, 0)}

\* a child of the host that is not a command control
TableElement == [type |-> "table"]

\* { invalid: 1 }: a value that is not a binding list
InvalidData == 0

\* new _CommandingSurface(element): no options are given
NoOptions == [opened |-> defaultOpened, closedDisplayMode |-> defaultClosedDisplayMode]

InitData ==
    \/ \E commands \in CommandLists(DataCommandKinds, MaxCommands), width \in {10, 1000},
          displayed \in BOOLEAN :
          Start(constructor(Before([Host(TRUE, width) EXCEPT !.displayed = displayed],
                                   commands, OneList(commands)),
                            Options(FALSE, defaultClosedDisplayMode)))
    \/ \E children \in CommandLists(DataCommandKinds \cup {TableElement}, MaxCommands) :
          Start(constructor(Before([children |-> [i \in 1 .. Len(children) |-> i]]
                                       @@ Host(TRUE, 1000),
                                   children, <<>>),
                            NoOptions))

\* the constructor has returned a surface
Constructed == cs._data # undefined

\* data.splice(i - 1, 1): the list tells its listeners that an item is removed
RemoveItem(i) ==
    /\ Constructed
    /\ i \in DOMAIN DataItems(World)
    /\ LET list == cs._data[1]
           removed == [World EXCEPT !.env.items[list] =
                          SelectSeq([k \in DOMAIN @ |-> IF k = i THEN 0 ELSE @[k]],
                                    LAMBDA id : id # 0)]
       IN  Commit(IF list \in cs.dataListeners THEN _refresh(removed) ELSE removed)

\* the scheduler runs the job that _refresh has scheduled
RunScheduled ==
    /\ env.scheduled > 0
    /\ Commit(_refreshJob(World))

\* surface.data = new WinJS.Binding.List([])
AssignEmptyList ==
    /\ Constructed
    /\ DataItems(World) # <<>>
    /\ Commit(set_data([World EXCEPT !.env.items = Append(@, <<>>)], Len(env.items) + 1))

\* surface.data = { invalid: 1 }
AssignInvalidData ==
    /\ Constructed
    /\ Len(trace) < MaxThrows
    /\ Commit(set_data(World, InvalidData))

\* the host gets display: none
Undisplayed ==
    /\ env.displayed
    /\ Commit(IF cs.resizeSubscribed
              THEN _resizeHandler([World EXCEPT !.env.displayed = FALSE])
              ELSE [World EXCEPT !.env.displayed = FALSE])

NextData ==
    \/ \E i \in 1 .. MaxCommands : RemoveItem(i)
    \/ RunScheduled
    \/ AssignEmptyList
    \/ AssignInvalidData
    \/ Undisplayed
    \/ Displayed
    \/ ForceLayout

SpecData == InitData /\ [][NextData]_vars

\* the data is empty, the surface has taken notice, and the pipeline has run since
EmptiedAndRun ==
    /\ Constructed
    /\ DataItems(World) = <<>>
    /\ ~ cs._refreshPending
    /\ cs._primaryCommands = <<>> /\ cs._secondaryCommands = <<>>
    /\ cs._nextLayoutStage # newDataStage

\* C16 as it is stated: once the data is empty, the next run of the pipeline
\* leaves no command in the action area and no entry in the overflow area.
C16_EmptyData ==
    EmptiedAndRun => dom.actionArea = <<>> /\ dom.overflowArea = <<>>

\* C16, amended: once the data is empty, the next run of the pipeline leaves
\* no command in the action area, and no entry in the overflow area if the
\* run gets through the layout stage; a run that stops at the measuring stage
\* leaves the overflow area as it was.
C16_EmptyDataLaidOut ==
    /\ EmptiedAndRun => dom.actionArea = <<>>
    /\ (EmptiedAndRun /\ cs._nextLayoutStage = idle) => dom.overflowArea = <<>>
    /\ (EmptiedAndRun /\ dom.overflowArea # <<>>) =>
          cs._nextLayoutStage = measuringStage

\* commands were given, the data is empty now, and a run has emptied both areas
C16_Witness ==
    /\ EmptiedAndRun
    /\ cs._nextLayoutStage = idle
    /\ Len(env.items) = 2 /\ Len(env.items[1]) = 2
    /\ ~ dom.contentFlyoutAttached
    /\ dom.overflowButton = "none"
    /\ dom.actionArea = <<>> /\ dom.overflowArea = <<>>

\* the caller has observed the named error
Thrown(name) == \E i \in DOMAIN trace : trace[i].kind = "throw" /\ trace[i].name = name

\* C17: assigning to data a value that is not a binding list throws BadData
\* and changes nothing: the data, the two command lists, the listeners, the
\* pending stage and what is rendered are as before.
C17_BadData ==
    [][AssignInvalidData =>
          /\ Len(trace') = Len(trace) + 1
          /\ Last(trace').kind = "throw"
          /\ Last(trace').name = "WinJS.UI._CommandingSurface.BadData"
          /\ machine' = machine /\ cs' = cs /\ dom' = dom /\ env' = env]_vars

\* BadData has been thrown at a surface with commands, which it still has
C17_Witness ==
    /\ Thrown("WinJS.UI._CommandingSurface.BadData")
    /\ Len(DataItems(World)) = 2
    /\ dom.actionArea = DataItems(World)
    /\ cs.dataListeners = {cs._data[1]}

\* a child of the host is not a command control
HasForeignChild ==
    \E i \in DOMAIN env.children : ~ isAppBarCommand(World, env.children[i])

\* C18: constructing a surface over a host with a child that is not a command
\* control throws MustContainCommands, before any data is assigned and before
\* the surface leaves Init.
C18_MustContainCommands ==
    HasForeignChild =>
        /\ Thrown("WinJS.UI._CommandingSurface.MustContainCommands")
        /\ cs._data = undefined
        /\ machine.state = "Init"

\* a step that runs the pipeline: new data, an edit of the data taken notice
\* of, or a forced layout
RunsPipeline == AssignEmptyList \/ RunScheduled \/ ForceLayout

\* C19: a run in which the measurement fails stops there: the pending stage is
\* Measuring afterwards, the overflow area, the overflow button and the display
\* of the commands are as before, the measurements (or their absence) are
\* untouched, and nothing is thrown.
C19_MeasurementFails ==
    [][(~ canMeasure(World) /\ RunsPipeline) =>
          /\ cs'._nextLayoutStage = measuringStage
          /\ dom'.overflowArea = dom.overflowArea
          /\ dom'.overflowAreaClasses = dom.overflowAreaClasses
          /\ dom'.overflowButton = dom.overflowButton
          /\ dom'.display = dom.display
          /\ cs'._cachedMeasurements = cs._cachedMeasurements
          /\ trace' = trace]_vars

\* a surface laid out with two secondary commands in the overflow area, whose
\* host is not displayed any more, has lost one of them and has run: both
\* remaining commands are in the action area, the overflow area and the
\* measurements are the old ones, and the measuring is pending
C19_Witness ==
    /\ Constructed
    /\ ~ canMeasure(World)
    /\ ~ cs._refreshPending
    /\ cs._nextLayoutStage = measuringStage
    /\ cs._cachedMeasurements # undefined
    /\ Len(cs._primaryCommands) = 1 /\ Len(cs._secondaryCommands) = 1
    /\ Len(dom.actionArea) = 2
    /\ Len(dom.overflowArea) = 2
    /\ trace = <<>>

----------------------------------------------------------------------------
(* The forced layout specification: the container of a surface and its     *)
(* custom content change size while the window does not, and the layout is *)
(* forced                                                                   *)

ContentWidths == {10, 11}

\* a button, custom content, and a button of the secondary section
ForceCommandKinds ==
    {Button(undefined),
     NewCommand(typeContent, primaryCommandSection, undefined, FALSE, 10),
     NewCommand(typeButton, secondaryCommandSection, undefined, FALSE, 0)}

\* room for a button, content of width 10 and the overflow button, one pixel
\* less, and room for everything
ForceWidths ==
    {actionAreaCommandWidth + 10 + actionAreaOverflowButtonWidth - 1,
     actionAreaCommandWidth + 10 + actionAreaOverflowButtonWidth,
     1000}

InitForce ==
    \E commands \in CommandLists(ForceCommandKinds, MaxCommands), width \in ForceWidths,
       displayed \in BOOLEAN :
        Start(constructor(Before([Host(TRUE, width) EXCEPT !.displayed = displayed],
                                 commands, OneList(commands)),
                          Options(FALSE, defaultClosedDisplayMode)))

\* the host gets another width; the window does not, so no handler runs
Sized(width) ==
    /\ width # env.width
    /\ env' = [env EXCEPT !.width = width]
    /\ UNCHANGED <<machine, cs, dom, trace>>

\* customEl.style.width: the element of a content command gets another width
ContentSized(id, width) ==
    /\ id \in DOMAIN env.commands
    /\ env.commands[id].type = typeContent
    /\ width # env.commands[id].width
    /\ env' = [env EXCEPT !.commands[id].width = width]
    /\ UNCHANGED <<machine, cs, dom, trace>>

\* surface.forceLayout(), recorded in the history
CallForceLayout == CanCall /\ Commit(forceLayout(Log(World, "call", "forceLayout")))

NextForce ==
    \/ \E width \in ForceWidths : Sized(width)
    \/ \E id \in 1 .. MaxCommands, width \in ContentWidths : ContentSized(id, width)
    \/ Undisplayed
    \/ Displayed
    \/ CallForceLayout

SpecForce == InitForce /\ [][NextForce]_vars

\* the content commands among the primary commands
PrimaryContent == {id \in Range(cs._primaryCommands) : Command(World, id).type = typeContent}

\* the measurements are those of the host and of the commands as they are now
MeasurementsCurrent ==
    /\ cs._cachedMeasurements # undefined
    /\ AvailableWidth = env.width
    /\ \A id \in PrimaryContent :
          cs._cachedMeasurements[1].contentCommandWidths[id] = Command(World, id).width

\* the primary commands are where the partition puts them
PlacementCurrent ==
    /\ ActionAreaPrimary = Range(Located.actionArea)
    /\ OverflowedPrimary = Range(Located.overflowArea)
    /\ Range(MenuOrigins) \ {0} = OverflowedPrimary \cup Range(cs._secondaryCommands)

\* a step that is a call of forceLayout: the call is the last of the history
ForcedLayout ==
    /\ Len(trace') = Len(trace) + 1
    /\ IsCall(Last(trace'), {"forceLayout"})

\* C20: forceLayout on a surface whose host can be measured measures again,
\* partitions again and leaves the pipeline idle, whatever stage was pending:
\* afterwards the measurements are the current ones and the commands are
\* placed according to them.
C20_ForceLayout ==
    [][(ForcedLayout /\ canMeasure(World) /\ ~ cs._disposed) =>
          /\ cs'._nextLayoutStage = idle
          /\ MeasurementsCurrent'
          /\ PlacementCurrent']_vars

\* the content of a surface has grown by a pixel and the layout was forced:
\* the new width is measured and the content is in the overflow area
C20_Witness ==
    /\ LayoutDone
    /\ trace # <<>> /\ IsCall(Last(trace), {"forceLayout"})
    /\ MeasurementsCurrent
    /\ env.width = actionAreaCommandWidth + 10 + actionAreaOverflowButtonWidth
    /\ Len(cs._primaryCommands) = 2 /\ Len(cs._secondaryCommands) = 1
    /\ \E id \in PrimaryContent :
          /\ Command(World, id).width = 11
          /\ OverflowedPrimary = {id}
    /\ Len(dom.overflowArea) = 3

----------------------------------------------------------------------------
(* The edit specification: the binding list of a surface is edited, the    *)
(* scheduler runs the refresh, and the surface is disposed                  *)

\* the list's listeners are told of a change: the surface listens with _refresh
Notified(w, list) == IF list \in w.cs.dataListeners THEN _refresh(w) ELSE w

\* s with x at position i
InsertAt(s, i, x) == SubSeq(s, 1, i - 1) \o <<x>> \o SubSeq(s, i, Len(s))

\* s without its element at position i
RemoveAt(s, i) == SubSeq(s, 1, i - 1) \o SubSeq(s, i + 1, Len(s))

\* MaxCommands commands exist, and the data is some first ones of them; the
\* host has room for one button and the overflow button
InitEdit ==
    \E commands \in [1 .. MaxCommands -> DataCommandKinds] :
       \E k \in 0 .. Len(commands) :
          Start(constructor(Before(Host(TRUE, 100), commands, <<[i \in 1 .. k |-> i]>>),
                            Options(FALSE, defaultClosedDisplayMode)))

\* the commands that are not in the data
Spare == DOMAIN env.commands \ Range(DataItems(World))

\* data.splice(i - 1, 0, command): iteminserted
InsertItem(i, id) ==
    /\ id \in Spare
    /\ i \in 1 .. Len(DataItems(World)) + 1
    /\ Commit(Notified([World EXCEPT !.env.items[cs._data[1]] = InsertAt(@, i, id)],
                       cs._data[1]))

\* data.splice(i - 1, 1): itemremoved
SpliceItem(i) ==
    /\ i \in DOMAIN DataItems(World)
    /\ Commit(Notified([World EXCEPT !.env.items[cs._data[1]] = RemoveAt(@, i)],
                       cs._data[1]))

\* data.move(i - 1, j - 1): itemmoved
MoveItem(i, j) ==
    /\ i \in DOMAIN DataItems(World) /\ j \in DOMAIN DataItems(World) /\ i # j
    /\ Commit(Notified([World EXCEPT !.env.items[cs._data[1]] =
                                         InsertAt(RemoveAt(@, i), j, @[i])],
                       cs._data[1]))

\* data.setAt(i - 1, command): itemchanged
ReplaceItem(i, id) ==
    /\ id \in Spare
    /\ i \in DOMAIN DataItems(World)
    /\ Commit(Notified([World EXCEPT !.env.items[cs._data[1]][i] = id], cs._data[1]))

\* a step that edits the data; a step in which the scheduler runs a job
Edit == env'.items # env.items
Refreshes == env'.scheduled < env.scheduled

\* surface.dispose(), called once
DisposeOnce == ~ cs._disposed /\ CallDispose

NextEdit ==
    \/ \E i \in 1 .. MaxCommands, id \in 1 .. MaxCommands : InsertItem(i, id)
    \/ \E i \in 1 .. MaxCommands : SpliceItem(i)
    \/ \E i, j \in 1 .. MaxCommands : MoveItem(i, j)
    \/ \E i \in 1 .. MaxCommands, id \in 1 .. MaxCommands : ReplaceItem(i, id)
    \/ RunScheduled
    \/ DisposeOnce

SpecEdit == InitEdit /\ [][NextEdit]_vars

\* the data's commands of the primary section, of the secondary section
PrimaryOf(items) == SelectSeq(items, LAMBDA id : Command(World, id).section # "secondary")
SecondaryOf(items) == SelectSeq(items, LAMBDA id : Command(World, id).section = "secondary")

\* C21: a notification of a change of the data runs nothing at once: it leaves
\* the surface as it is but for the pending refresh; the scheduler never
\* holds more than one refresh, however many notifications arrive before it
\* runs; the refresh computes the command lists once and runs the pipeline
\* from the new data stage; a refresh that runs after dispose does nothing.
C21_BatchedRefresh ==
    /\ [][Edit => /\ dom' = dom /\ machine' = machine /\ trace' = trace
                  /\ cs' = [cs EXCEPT !._refreshPending = TRUE]]_vars
    /\ [](/\ env.scheduled <= 1
          /\ env.scheduled = 1 => cs._refreshPending
          /\ (cs._refreshPending /\ ~ cs._disposed) => env.scheduled = 1)
    /\ [][Refreshes =>
            /\ env'.scheduled = 0
            /\ IF cs._disposed
               THEN cs' = cs /\ dom' = dom /\ machine' = machine /\ trace' = trace
               ELSE /\ ~ cs'._refreshPending
                    /\ cs'._primaryCommands = PrimaryOf(DataItems(World))
                    /\ cs'._secondaryCommands = SecondaryOf(DataItems(World))
                    /\ dom'.actionArea = DataItems(World)
                    /\ cs'._nextLayoutStage = idle]_vars

\* two commands were removed from the data since the pipeline ran, and one
\* refresh is scheduled
C21_Witness ==
    /\ ~ cs._disposed
    /\ cs._refreshPending
    /\ env.scheduled = 1
    /\ Len(dom.actionArea) = Len(DataItems(World)) + 2

\* the surface has taken notice of every edit of its data and the pipeline
\* has run through all its stages since
Refreshed ==
    /\ Constructed
    /\ ~ cs._disposed
    /\ ~ cs._refreshPending
    /\ cs._nextLayoutStage = idle

\* C24: once the data is edited, the refresh has run and the pipeline has
\* come to idle, the command elements of the action area are the commands of
\* the data in the data's order, the overflow button is the last child of the
\* action area, and the commands displayed there are those the partition of
\* the data's primary commands puts there.
C24_ActionAreaFollowsData ==
    Refreshed =>
        /\ dom.actionArea = DataItems(World)
        /\ dom.actionAreaLastChild = "overflowButton"
        /\ cs._primaryCommands = PrimaryOf(DataItems(World))
        /\ cs._secondaryCommands = SecondaryOf(DataItems(World))
        /\ \A id \in Range(DataItems(World)) :
              dom.display[id] # "none" <=> id \in Range(Located.actionArea)
        /\ OverflowedPrimary = Range(Located.overflowArea)
        /\ Range(MenuOrigins) \ {0} = OverflowedPrimary \cup Range(cs._secondaryCommands)

\* the data was edited into an order that is not the one of construction, and
\* of its two primary commands one is displayed and one overflowed
C24_Witness ==
    /\ Refreshed
    /\ DataItems(World) = <<3, 1>>
    /\ dom.actionArea = <<3, 1>>
    /\ Len(cs._primaryCommands) = 2
    /\ Len(Located.actionArea) = 1 /\ Len(Located.overflowArea) = 1

\* C25: a disposed surface listens neither to the resize notifications of its
\* host nor to the change events of its data, and has no content flyout
\* attached.
C25_DisposeUnsubscribes ==
    cs._disposed =>
        /\ ~ cs.resizeSubscribed
        /\ cs.dataListeners = {}
        /\ ~ dom.contentFlyoutAttached

----------------------------------------------------------------------------
(* The pipeline specification: a profiler takes the marks of a surface that *)
(* is opened and closed while its data is replaced, its host is resized and *)
(* hidden, and its layout is forced                                          *)

PipelineCommandLists ==
    {<<Button(undefined)>>,
     <<Button(undefined), Button(undefined),
       NewCommand(typeButton, secondaryCommandSection, undefined, FALSE, 0)>>}

PipelineWidths == {100, 1000}

InitPipeline ==
    \E commands \in PipelineCommandLists, width \in PipelineWidths, displayed \in BOOLEAN :
        Start(constructor(Before([marks |-> Some(<<>>)]
                                     @@ [Host(TRUE, width) EXCEPT !.displayed = displayed],
                                 commands, OneList(commands)),
                          Options(FALSE, defaultClosedDisplayMode)))

NextPipeline ==
    \/ CallOpen
    \/ CallClose
    \/ \E canceled \in BOOLEAN : BeforeShowHandled(canceled)
    \/ AfterShowHandled
    \/ \E canceled \in BOOLEAN : BeforeHideHandled(canceled)
    \/ AfterHideHandled
    \/ \E width \in PipelineWidths : Resize(width)
    \/ ForceLayout
    \/ AssignEmptyList
    \/ Undisplayed
    \/ Displayed

SpecPipeline == InitPipeline /\ [][NextPipeline]_vars

\* the marks the stages write
NewDataMarks == <<"_processNewData,info">>
MeasuringMarks == <<"_measure,info">>
LayoutMarks == <<"_layoutCommands,StartTM", "_layoutCommands,StopTM">>

\* the marks of a run that starts with the stage pending, on a host that can
\* be measured or cannot: the stages from the pending one downward, up to the
\* one that fails
MarksFrom(pending, measurable) ==
    (IF pending >= newDataStage THEN NewDataMarks ELSE <<>>)
        \o (IF pending >= measuringStage THEN MeasuringMarks ELSE <<>>)
        \o (IF pending >= layoutStage /\ (pending >= measuringStage => measurable)
            THEN LayoutMarks ELSE <<>>)

\* the stage pending after such a run
PendingAfter(pending, measurable) ==
    IF pending >= measuringStage /\ ~ measurable THEN measuringStage ELSE idle

\* what a run of the pipeline makes of the world as it is
Run == _updateDomImpl_updateCommands(World)

\* C27: a run executes the stages from the pending one downward in the order
\* new data, measuring, layout, each once and none above the pending one; it
\* ends with nothing pending when every stage succeeded, and with the failed
\* stage pending otherwise.
C27_RunExecutesPending ==
    /\ Run.env.marks = Some(MarksFrom(cs._nextLayoutStage, canMeasure(World)))
    /\ Run.cs._nextLayoutStage = PendingAfter(cs._nextLayoutStage, canMeasure(World))
    /\ \E pending \in idle .. newDataStage, measurable \in BOOLEAN :
          /\ env.marks = Some(MarksFrom(pending, measurable))
          /\ measurable => cs._nextLayoutStage = idle \/ machine.updateDomPending

\* a run was postponed with only the layout pending: the beforeshow handlers
\* are running, the latest run measured and laid out, and the host was
\* resized since
C27_Witness ==
    /\ machine.state = "BeforeShow"
    /\ machine.updateDomPending
    /\ cs._nextLayoutStage = layoutStage
    /\ env.marks = Some(MeasuringMarks \o LayoutMarks)
    /\ Run.env.marks = Some(LayoutMarks)
    /\ Run.cs._nextLayoutStage = idle

\* the machine postpones updateDom: a transition is under way
Postponing == machine.state \in ShowStates \cup HideStates

\* the world but for the pending stage
ButStage(w) == [w EXCEPT !.cs._nextLayoutStage = idle]

\* an invalidation sets the pending stage to the larger of it and the stage
\* asked for, and nothing else
Escalates(w, stage) ==
    /\ w.cs._nextLayoutStage = Max(stage, cs._nextLayoutStage)
    /\ w.cs._nextLayoutStage >= cs._nextLayoutStage
    /\ ButStage(w) = ButStage(World)

\* what the callers of the invalidations make of the world while the machine
\* postpones: the stage asked for is pending at least, and nothing has run
Postponed(w, stage) ==
    /\ w.cs._nextLayoutStage = Max(stage, cs._nextLayoutStage)
    /\ w.env.marks = env.marks
    /\ w.dom = dom
    /\ w.machine.updateDomPending

\* C26: the invalidations of the data, of the measurements and of the layout
\* set the pending stage to the maximum of it and of new data (3), measuring
\* (2) and layout (1), so that they never lower it; while the runs are
\* postponed the pending stage is the maximum of what was asked for; only a
\* run that executes the pending stages lowers it.
C26_StageEscalates ==
    /\ [](/\ Escalates(_dataDirty(World), 3)
          /\ Escalates(_meaurementsDirty(World), 2)
          /\ Escalates(_layoutDirty(World), 1)
          /\ Postponing =>
                /\ Postponed(forceLayout(World), 2)
                /\ Postponed(_dataUpdated(World), 3)
                /\ \A width \in PipelineWidths :
                      (/\ canMeasure(World)
                       /\ cs._cachedMeasurements # undefined
                       /\ width # AvailableWidth) =>
                          Postponed(_resizeHandler([World EXCEPT !.env.width = width]), 1))
    /\ [][cs'._nextLayoutStage < cs._nextLayoutStage =>
             \E pending \in cs._nextLayoutStage .. newDataStage :
                /\ env'.marks = Some(MarksFrom(pending, canMeasure(World')))
                /\ cs'._nextLayoutStage = PendingAfter(pending, canMeasure(World'))]_vars

\* the beforeshow handlers are running on a host that can be measured, and
\* the layout was forced meanwhile: measuring is pending and nothing has run
C26_Witness ==
    /\ machine.state = "BeforeShow"
    /\ machine.updateDomPending
    /\ canMeasure(World)
    /\ cs._cachedMeasurements # undefined /\ AvailableWidth = env.width
    /\ cs._nextLayoutStage = measuringStage
    /\ IsEvent(Last(trace), EventNames.beforeShow)

\* a step in which a show transition goes ahead: onShow runs
Shows == machine.state = "BeforeShow" /\ machine'.state = "Showing"

\* the latest run has executed the layout stage
LayoutExecuted ==
    /\ Len(env.marks[1]) >= 2
    /\ SubSeq(env.marks[1], Len(env.marks[1]) - 1, Len(env.marks[1])) = LayoutMarks

\* C28 as it is stated: an open that is not vetoed renders the surface opened
\* and runs the layout stage, even when nothing was pending.
C28_OpenRunsLayout ==
    [][(Shows /\ (cs._nextLayoutStage >= measuringStage => canMeasure(World))) =>
          RenderedOpened' /\ LayoutExecuted']_vars

\* C28, amended: an open that is not vetoed renders the surface opened and
\* runs the pipeline from the stage that is pending, which it does not raise:
\* when nothing is pending, no stage is executed.
C28_OpenRunsPending ==
    [][Shows =>
          /\ RenderedOpened'
          /\ env'.marks = Some(MarksFrom(cs._nextLayoutStage, canMeasure(World)))
          /\ cs'._nextLayoutStage = PendingAfter(cs._nextLayoutStage, canMeasure(World))]_vars

\* a surface with nothing pending was opened: it is rendered opened, the
\* aftershow handlers are running, and no stage was executed
C28_Witness ==
    /\ machine.state = "Showing"
    /\ RenderedOpened
    /\ cs._nextLayoutStage = idle
    /\ env.marks = Some(<<>>)
    /\ canMeasure(World)

----------------------------------------------------------------------------
(* The toggle specification: the entries of the overflow area are invoked, *)
(* and the host is resized                                                  *)

\* a toggle that is selected, and a button
ToggleCommandKinds ==
    {[NewCommand(typeToggle, primaryCommandSection, undefined, FALSE, 0) EXCEPT !.selected = TRUE],
     Button(undefined)}

ToggleWidths == {10, 1000}

InitToggle ==
    \E commands \in CommandLists(ToggleCommandKinds, MaxCommands), width \in ToggleWidths :
        Start(constructor(Before(Host(TRUE, width), commands, OneList(commands)),
                          Options(FALSE, defaultClosedDisplayMode)))

\* the entries of the overflow area that can be invoked
Invocable ==
    {i \in DOMAIN dom.overflowArea :
        dom.overflowArea[i]._originalICommand # 0 /\ dom.overflowArea[i].display # "none"}

\* the click of a menu command: it calls beforeInvoke, and a toggle flips its
\* own selected state
MenuCommandInvoked(w, i) ==
    [beforeInvoke(w, w.dom.overflowArea[i])
        EXCEPT !.dom.overflowArea[i].selected =
                   IF w.dom.overflowArea[i].type = typeToggle THEN ~ @ ELSE @]

\* menuCommand.element.click()
Invoke(i) ==
    /\ i \in Invocable
    /\ Commit(MenuCommandInvoked(World, i))

NextToggle ==
    \/ \E i \in 1 .. MaxCommands : Invoke(i)
    \/ \E width \in ToggleWidths : Resize(width)

SpecToggle == InitToggle /\ [][NextToggle]_vars

\* C22: invoking the entry of the overflow area that was projected from a
\* toggle flips the selected state of the original command, and of no other,
\* so that the command shows the flipped state when a layout brings it back
\* to the action area; and the selected state of every entry is the one of
\* its original command.
C22_ToggleProjection ==
    /\ [][\A i \in Invocable :
             (Invoke(i) /\ dom.overflowArea[i].type = typeToggle) =>
                 LET chosen == dom.overflowArea[i]._originalICommand
                 IN  /\ env'.commands[chosen].selected = ~ env.commands[chosen].selected
                     /\ \A id \in DOMAIN env.commands \ {chosen} :
                           env'.commands[id] = env.commands[id]]_vars
    /\ [](\A i \in DOMAIN dom.overflowArea :
             dom.overflowArea[i]._originalICommand # 0 =>
                 dom.overflowArea[i].selected =
                     Command(World, dom.overflowArea[i]._originalICommand).selected)

\* a toggle that was constructed selected is displayed in the action area and
\* is not selected: its entry was invoked while it overflowed
C22_Witness ==
    /\ LayoutDone
    /\ dom.overflowArea = <<>>
    /\ \E id \in Range(cs._primaryCommands) :
          /\ Command(World, id).type = typeToggle
          /\ ~ Command(World, id).selected
          /\ cs._chosenCommand = Some(id)
          /\ dom.display[id] = ""

----------------------------------------------------------------------------
(* Keyboard focus: the keydown handler of the root element *)

Min(a, b) == IF a <= b THEN a ELSE b

\* a % b of the source language: the sign is the sign of a
Remainder(a, b) == IF a >= 0 THEN a % b ELSE 0 - ((0 - a) % b)

\* the key codes the handler tells apart, and one it does not
Keys == {"leftArrow", "rightArrow", "upArrow", "downArrow", "home", "end", "tab"}

\* the children of the action area: the spacer, the command elements and the
\* overflow button
actionAreaChildren(w) ==
    <<<<"spacer">>>> \o [i \in DOMAIN w.dom.actionArea |-> <<"command", w.dom.actionArea[i]>>]
                    \o <<<<"overflowButton">>>>

\* the children of the overflow area: the menu commands
overflowAreaChildren(w) == [i \in DOMAIN w.dom.overflowArea |-> <<"menuCommand", i>>]

_isElementFocusable(w, element) ==
    CASE element[1] = "command" ->
             /\ w.dom.display[element[2]] # "none"
             /\ Command(w, element[2]).type # typeSeparator
             /\ ~ Command(w, element[2]).hidden
      [] element[1] = "menuCommand" ->
             /\ w.dom.overflowArea[element[2]].display # "none"
             /\ w.dom.overflowArea[element[2]].type # typeSeparator
      [] element[1] = "overflowButton" -> w.dom.overflowButton # "none"
      [] OTHER -> FALSE        \* the spacer has no tab stop

\* the style of the overflow area is never assigned a display, so that its
\* children are always in reach
_getFocusableElementsInfo(w) ==
    LET elementsInReach == actionAreaChildren(w) \o overflowAreaChildren(w)
        elements == SelectSeq(elementsInReach, LAMBDA element : _isElementFocusable(w, element))
        holders == {i \in DOMAIN elements : elements[i] = w.env.activeElement}
    IN  [elements |-> elements,
         focusedIndex |-> IF holders = {} THEN -1 ELSE (CHOOSE i \in holders : TRUE) - 1]

\* the switch of _keyDownHandler, were the backward step not to stop at 0
_keyDownIndex_unclamped(w, info, keyCode) ==
    LET length == Len(info.elements)
    IN  CASE keyCode \in {IF w.cs._rtl THEN "rightArrow" ELSE "leftArrow", "upArrow"} ->
                 Some(Remainder(info.focusedIndex - 1, length))
          [] keyCode \in {IF w.cs._rtl THEN "leftArrow" ELSE "rightArrow", "downArrow"} ->
                 Some(Min(info.focusedIndex + 1, length - 1))
          [] keyCode = "home" -> Some(0)
          [] keyCode = "end" -> Some(length - 1)
          [] OTHER -> undefined

\* the switch of _keyDownHandler, were the backward step to go around
_keyDownIndex_wrapping(w, info, keyCode) ==
    LET length == Len(info.elements)
    IN  CASE keyCode \in {IF w.cs._rtl THEN "rightArrow" ELSE "leftArrow", "upArrow"} ->
                 Some(Remainder(Max(-1, info.focusedIndex - 1) + length, length))
          [] keyCode \in {IF w.cs._rtl THEN "leftArrow" ELSE "rightArrow", "downArrow"} ->
                 Some(Min(info.focusedIndex + 1, length - 1))
          [] keyCode = "home" -> Some(0)
          [] keyCode = "end" -> Some(length - 1)
          [] OTHER -> undefined

\* the switch of _keyDownHandler: the index of the element the key leads to
_keyDownIndex(w, info, keyCode) ==
    LET length == Len(info.elements)
    IN  CASE keyCode \in {IF w.cs._rtl THEN "rightArrow" ELSE "leftArrow", "upArrow"} ->
                 Some(Remainder(Max(0, info.focusedIndex - 1), length))
          [] keyCode \in {IF w.cs._rtl THEN "leftArrow" ELSE "rightArrow", "downArrow"} ->
                 Some(Min(info.focusedIndex + 1, length - 1))
          [] keyCode = "home" -> Some(0)
          [] keyCode = "end" -> Some(length - 1)
          [] OTHER -> undefined

\* ev is the key code, the alt key, and whether the target of the event is
\* inside a win-interactive element. The first and the last focus element of
\* a command are inside its element and stand for it here.
_keyDownHandler(w, ev) ==
    IF ev.altKey \/ ev.interactive
    THEN w
    ELSE LET focusableElementsInfo == _getFocusableElementsInfo(w)
             index == IF Len(focusableElementsInfo.elements) > 0
                      THEN _keyDownIndex(w, focusableElementsInfo, ev.keyCode)
                      ELSE undefined
             targetCommand ==
                 IF index # undefined /\ index[1] + 1 \in DOMAIN focusableElementsInfo.elements
                 THEN Some(focusableElementsInfo.elements[index[1] + 1])
                 ELSE undefined
         IN  IF targetCommand # undefined /\ targetCommand[1] # w.env.activeElement
             THEN [w EXCEPT !.env.activeElement = targetCommand[1]]
             ELSE w

----------------------------------------------------------------------------
(* The focus specification: keys are pressed on a surface that was given   *)
(* the focus                                                                *)

FocusCommandKinds ==
    {Button(undefined),
     NewCommand(typeButton, primaryCommandSection, undefined, TRUE, 0),
     NewCommand(typeSeparator, primaryCommandSection, undefined, FALSE, 0),
     NewCommand(typeButton, secondaryCommandSection, undefined, FALSE, 0)}

FocusWidths == {100, 1000}

KeyEvents == [keyCode : Keys, altKey : BOOLEAN, interactive : BOOLEAN]

InitFocus ==
    \E commands \in CommandLists(FocusCommandKinds, MaxCommands), width \in FocusWidths,
       rtl \in BOOLEAN :
        Start(constructor(Before([rtl |-> rtl] @@ Host(TRUE, width), commands, OneList(commands)),
                          Options(TRUE, defaultClosedDisplayMode)))

\* commandingSurface.element.focus()
FocusRoot == Commit([World EXCEPT !.env.activeElement = <<"root">>])

KeyDown(ev) == Commit(_keyDownHandler(World, ev))

NextFocus ==
    \/ FocusRoot
    \/ \E ev \in KeyEvents : KeyDown(ev)

SpecFocus == InitFocus /\ [][NextFocus]_vars

\* the keys that lead backward and forward on this surface
BackwardKeys == {IF cs._rtl THEN "rightArrow" ELSE "leftArrow", "upArrow"}

ForwardKeys == {IF cs._rtl THEN "leftArrow" ELSE "rightArrow", "downArrow"}

\* a key that is pressed with no modifier outside interactive content
Pressed(keyCode) == [keyCode |-> keyCode, altKey |-> FALSE, interactive |-> FALSE]

\* C23: with L > 0 focusable elements of which the one of index f holds the
\* focus (f = -1 when none does), home leads to index 0, end to L - 1, a
\* forward key to min(f + 1, L - 1) and a backward key to max(f - 1, 0); the
\* index is within 0 .. L - 1 and the element of that index gets the focus;
\* with no focusable element no key moves the focus.
C23_FocusTarget ==
    LET info == _getFocusableElementsInfo(World)
        L == Len(info.elements)
        f == info.focusedIndex
        target(keyCode) == _keyDownIndex(World, info, keyCode)
        expected(keyCode) ==
            CASE keyCode = "home" -> 0
              [] keyCode = "end" -> L - 1
              [] keyCode \in ForwardKeys -> Min(f + 1, L - 1)
              [] keyCode \in BackwardKeys -> Max(f - 1, 0)
    IN  /\ f \in -1 .. L - 1
        /\ L > 0 =>
              \A keyCode \in Keys \ {"tab"} :
                  /\ target(keyCode) = Some(expected(keyCode))
                  /\ expected(keyCode) \in 0 .. L - 1
                  /\ _keyDownHandler(World, Pressed(keyCode)).env.activeElement =
                         info.elements[expected(keyCode) + 1]
        /\ L = 0 => \A ev \in KeyEvents : _keyDownHandler(World, ev) = World

\* keys have led the focus to the last of at least three focusable elements,
\* a menu command, on a surface that reads right to left
C23_Witness ==
    LET info == _getFocusableElementsInfo(World)
    IN  /\ cs._rtl
        /\ Len(info.elements) >= 3
        /\ info.focusedIndex = Len(info.elements) - 1
        /\ env.activeElement[1] = "menuCommand"

\* no element can take the focus: the surface has no command
C23_WitnessEmpty ==
    /\ _getFocusableElementsInfo(World).elements = <<>>
    /\ env.activeElement = <<"root">>

----------------------------------------------------------------------------
(* The partition specification: commands whose priorities tie, among them   *)
(* hidden ones, on a host that is resized                                    *)

PartitionCommandKinds ==
    {Button(undefined), Button(Some(-1)), Button(Some(1)),
     NewCommand(typeButton, primaryCommandSection, Some(1), TRUE, 0),
     NewCommand(typeContent, primaryCommandSection, undefined, FALSE, 10),
     NewCommand(typeSeparator, primaryCommandSection, undefined, FALSE, 0),
     NewCommand(typeButton, secondaryCommandSection, undefined, FALSE, 0)}

PartitionWidths == {10, 100, 168, 204, 1000}

InitPartition ==
    \E commands \in CommandLists(PartitionCommandKinds, MaxCommands), width \in PartitionWidths :
        Start(constructor(Before(Host(TRUE, width), commands, OneList(commands)),
                          Options(FALSE, defaultClosedDisplayMode)))

NextPartition == \E width \in PartitionWidths : Resize(width)

SpecPartition == InitPartition /\ [][NextPartition]_vars

----------------------------------------------------------------------------
(* The priorities _getCommandsInfo gives the primary commands *)

CommandsInfo == _getCommandsInfo(World)

\* the priorities given to the commands that have none
Synthesized == {CommandsInfo[i].priority : i \in {k \in DOMAIN cs._primaryCommands : Unprioritized(k)}}

\* the synthesized priorities grow with the place in the list, and the
\* priorities the commands have are used as they are
SynthesizedInOrder ==
    /\ DOMAIN CommandsInfo = DOMAIN cs._primaryCommands
    /\ \A i \in DOMAIN cs._primaryCommands :
          /\ CommandsInfo[i].command = cs._primaryCommands[i]
          /\ ~ Unprioritized(i) =>
                 CommandsInfo[i].priority = Command(World, cs._primaryCommands[i]).priority[1]
    /\ \A i, j \in DOMAIN cs._primaryCommands :
          (Unprioritized(i) /\ Unprioritized(j) /\ i < j) =>
              CommandsInfo[i].priority < CommandsInfo[j].priority

\* C30 as the claim has it: every synthesized priority is a negative integer,
\* the synthesized priorities are consecutive and grow with the place in the
\* list, and the priorities the commands have are used as they are.
C30_SynthesizedNegative ==
    cs._cachedMeasurements # undefined =>
        /\ \A p \in Synthesized : p < 0
        /\ \A p, q \in Synthesized : \A r \in p .. q : r \in Synthesized
        /\ SynthesizedInOrder

\* C30: the synthesized priorities are 0, -1, -2, ...: the last command that
\* has no priority gets 0, and each one before it one less than the next, so
\* that they grow with the place in the list; the priorities the commands
\* have are used as they are.
C30_SynthesizedPriorities ==
    cs._cachedMeasurements # undefined =>
        /\ Synthesized = {0 - k : k \in 0 .. Cardinality(Synthesized) - 1}
        /\ Cardinality(Synthesized) =
               Cardinality({k \in DOMAIN cs._primaryCommands : Unprioritized(k)})
        /\ SynthesizedInOrder

\* a layout was made of two commands without a priority around one that has
\* the priority -1, which the first of them is given too
C30_Witness ==
    /\ LayoutDone
    /\ Len(cs._primaryCommands) = 3
    /\ Unprioritized(1) /\ ~ Unprioritized(2) /\ Unprioritized(3)
    /\ CommandsInfo[1].priority = -1
    /\ CommandsInfo[2].priority = -1
    /\ CommandsInfo[3].priority = 0

----------------------------------------------------------------------------
(* The partition as a cutoff of the priorities *)

\* the width _getCommandsInfo takes the i-th primary command to have once the
\* primary commands are displayed again
WidthOf(i) == _getCommandsInfo(_showPrimaryCommands(World))[i].width

\* the primary commands that come no later than the i-th in ascending order of
\* priority; commands of one priority come in the order of the list
UpTo(i) ==
    {k \in DOMAIN cs._primaryCommands :
        \/ EffectivePriority(k) < EffectivePriority(i)
        \/ EffectivePriority(k) = EffectivePriority(i) /\ k <= i}

\* the width that remains once the commands up to the i-th have taken theirs
\* and the overflow button, if it is needed, its own
RemainingAt(i) ==
    LET consumed == SeqSum([k \in DOMAIN cs._primaryCommands |->
                               IF k \in UpTo(i) THEN WidthOf(k) ELSE 0])
        isLast == UpTo(i) = DOMAIN cs._primaryCommands
        overflowButtonSpace == IF Len(cs._secondaryCommands) > 0 \/ ~ isLast
                               THEN cs._cachedMeasurements[1].overflowButtonWidth ELSE 0
    IN  AvailableWidth - consumed - overflowButtonSpace

\* the first command, in ascending order of priority, at which the remaining
\* width is negative
FirstNegative ==
    {i \in DOMAIN cs._primaryCommands :
        /\ RemainingAt(i) < 0
        /\ \A k \in UpTo(i) \ {i} : RemainingAt(k) >= 0}

WithinCutoff(i) ==
    \A first \in FirstNegative : EffectivePriority(i) <= EffectivePriority(first) - 1

\* C29: the action area list and the overflow list of a partition are
\* disjoint, hold every primary command once, in the order of the primary
\* commands, and a command is in the action area exactly if its priority is
\* at most the cutoff: the priority, less one, of the first command in
\* ascending order of priority at which the remaining width is negative; two
\* commands of one priority are in the same area; the layout displays the
\* commands as the partition says.
C29_PriorityCutoff ==
    LayoutDone =>
        LET primary == cs._primaryCommands
            inActionArea == Range(Located.actionArea)
            inOverflowArea == Range(Located.overflowArea)
        IN  /\ inActionArea \cap inOverflowArea = {}
            /\ inActionArea \cup inOverflowArea = Range(primary)
            /\ Len(Located.actionArea) + Len(Located.overflowArea) = Len(primary)
            /\ Located.actionArea = SelectSeq(primary, LAMBDA id : id \in inActionArea)
            /\ Located.overflowArea = SelectSeq(primary, LAMBDA id : id \in inOverflowArea)
            /\ Cardinality(FirstNegative) <= 1
            /\ \A i \in DOMAIN primary : primary[i] \in inActionArea <=> WithinCutoff(i)
            /\ \A i, j \in DOMAIN primary :
                  EffectivePriority(i) = EffectivePriority(j) =>
                      (primary[i] \in inActionArea <=> primary[j] \in inActionArea)
            /\ OverflowedPrimary = inOverflowArea

\* two commands of one priority overflow, and a command of a lower priority
\* is in the action area
C29_Witness ==
    /\ LayoutDone
    /\ \E i, j, k \in DOMAIN cs._primaryCommands :
          /\ i # j
          /\ EffectivePriority(i) = EffectivePriority(j)
          /\ Overflowed(i) /\ Overflowed(j)
          /\ ~ Overflowed(k)
          /\ dom.display[cs._primaryCommands[k]] = ""

----------------------------------------------------------------------------
(* The ends of the focusable list *)

FocusableElements == _getFocusableElementsInfo(World).elements

FocusedIndex == _getFocusableElementsInfo(World).focusedIndex

\* the element that holds the focus once the key was pressed
FocusAfter(keyCode) == _keyDownHandler(World, Pressed(keyCode)).env.activeElement

\* a forward key on the last of the focusable elements leaves the focus there
ForwardStays ==
    (Len(FocusableElements) >= 2 /\ FocusedIndex = Len(FocusableElements) - 1) =>
        \A keyCode \in ForwardKeys : FocusAfter(keyCode) = Last(FocusableElements)

\* C31 as the claim has it: with at least two focusable elements and the
\* focus on the first, a backward key moves the focus to the last; a forward
\* key on the last leaves the focus there.
C31_BackwardWraps ==
    /\ (Len(FocusableElements) >= 2 /\ FocusedIndex = 0) =>
           \A keyCode \in BackwardKeys : FocusAfter(keyCode) = Last(FocusableElements)
    /\ ForwardStays

\* C31: the traversal stops at both ends: with at least two focusable
\* elements and the focus on the first, a backward key leaves the focus on
\* the first and changes nothing; a forward key on the last leaves the focus
\* there.
C31_BackwardStays ==
    /\ (Len(FocusableElements) >= 2 /\ FocusedIndex = 0) =>
           \A keyCode \in BackwardKeys :
               /\ FocusAfter(keyCode) = FocusableElements[1]
               /\ _keyDownHandler(World, Pressed(keyCode)) = World
    /\ ForwardStays

\* keys have led the focus to the first of three focusable elements, a
\* command of the action area that is followed by the overflow button
C31_Witness ==
    /\ Len(FocusableElements) = 3
    /\ FocusedIndex = 0
    /\ env.activeElement[1] = "command"
    /\ FocusableElements[2] = <<"overflowButton">>

----------------------------------------------------------------------------
(* The markers of the overflow area *)

\* the types of the entries of the overflow area
MenuEntryTypes == {dom.overflowArea[i].type : i \in DOMAIN dom.overflowArea}

\* C32: after a layout the overflow area has the class that says it contains
\* a toggle exactly if one of its entries is a toggle, and the class that
\* says it contains a flyout exactly if one of its entries is a flyout, the
\* entries projected from content commands among them.
C32_MenuMarkers ==
    LayoutDone =>
        /\ menuContainsToggleCommandClass \in dom.overflowAreaClasses
               <=> typeToggle \in MenuEntryTypes
        /\ menuContainsFlyoutCommandClass \in dom.overflowAreaClasses
               <=> typeFlyout \in MenuEntryTypes

----------------------------------------------------------------------------
(* The retry of a run that stopped at the measuring stage *)

\* a step in which the resize notifier calls the handler: the host has got
\* another width, or it is displayed again
ResizeNotified ==
    /\ cs.resizeSubscribed
    /\ env'.width # env.width \/ (~ env.displayed /\ env'.displayed)

\* C33: when a run has stopped at the measuring stage and the host can be
\* measured, the resize notification starts a run that measures, lays out and
\* leaves the pipeline idle, also when no measurement was ever taken.
C33_ResizeRetries ==
    [][(/\ ResizeNotified
        /\ cs._nextLayoutStage = measuringStage
        /\ machine.state \in {"Hidden", "Shown"}
        /\ canMeasure(World')) =>
           /\ cs'._nextLayoutStage = idle
           /\ cs'._cachedMeasurements # undefined]_vars

----------------------------------------------------------------------------
(* The snapshot specification: the data is edited, the host is resized,    *)
(* hidden and displayed, the layout is forced, the surface opens or closes  *)

\* the commands that exist: buttons, a separator and a secondary button
SnapshotPool ==
    [i \in 1 .. MaxCommands |->
        CASE i = 2 -> NewCommand(typeSeparator, primaryCommandSection, undefined, FALSE, 0)
          [] i = 3 -> NewCommand(typeButton, secondaryCommandSection, undefined, FALSE, 0)
          [] OTHER -> Button(undefined)]

InitSnapshot ==
    \E k \in 0 .. MaxCommands, width \in PipelineWidths, displayed \in BOOLEAN,
       isOpened \in BOOLEAN :
        Start(constructor(Before([marks |-> Some(<<>>)]
                                     @@ [Host(TRUE, width) EXCEPT !.displayed = displayed],
                                 SnapshotPool, <<[i \in 1 .. k |-> i]>>),
                          Options(isOpened, defaultClosedDisplayMode)))

\* surface.open() or surface.close(), called once
OpenOnce == Calls(trace) = <<>> /\ CallOpen

CloseOnce == Calls(trace) = <<>> /\ CallClose

\* data.push(command), with the next command of the pool; data.pop()
Push ==
    /\ Len(DataItems(World)) < MaxCommands
    /\ InsertItem(Len(DataItems(World)) + 1, Len(DataItems(World)) + 1)

Pop == SpliceItem(Len(DataItems(World)))

NextSnapshot ==
    \/ Push
    \/ Pop
    \/ RunScheduled
    \/ \E width \in PipelineWidths : Resize(width)
    \/ Undisplayed
    \/ Displayed
    \/ ForceLayout
    \/ OpenOnce
    \/ CloseOnce
    \/ BeforeShowHandled(FALSE)
    \/ AfterShowHandled
    \/ BeforeHideHandled(FALSE)
    \/ AfterHideHandled

SpecSnapshot == InitSnapshot /\ [][NextSnapshot]_vars

\* the measurements are those of the primary commands the surface has now:
\* a width was measured for each kind of command there is, and for no other
SnapshotCovers ==
    LET m == cs._cachedMeasurements[1]
        types == {Command(World, id).type : id \in Range(cs._primaryCommands)}
    IN  /\ DOMAIN m.contentCommandWidths = PrimaryContent
        /\ m.separatorWidth > 0 <=> typeSeparator \in types
        /\ m.standardCommandWidth > 0 <=> types \cap {typeButton, typeToggle, typeFlyout} # {}

\* C34: the layout stage never runs without measurements: whenever the layout
\* is the stage a run would begin with, or nothing is pending, measurements
\* exist and they were taken of the commands the surface has now; a run that
\* took new data and reached the layout measured in between; and once a run
\* has laid out measurements exist.
C34_LayoutHasSnapshot ==
    /\ cs._nextLayoutStage \in {layoutStage, idle} =>
           cs._cachedMeasurements # undefined /\ SnapshotCovers
    /\ LayoutExecuted =>
           /\ cs._cachedMeasurements # undefined
           /\ env.marks[1] \in {LayoutMarks, MeasuringMarks \o LayoutMarks,
                                NewDataMarks \o MeasuringMarks \o LayoutMarks}

\* a separator was inserted while the host was not displayed, the run stopped
\* at the measuring stage, and a resize has run the measuring and the layout
\* stage: the measurements hold the width of the separator
C34_Witness ==
    /\ env.marks = Some(MeasuringMarks \o LayoutMarks)
    /\ cs._nextLayoutStage = idle
    /\ env.scheduled = 0
    /\ DataItems(World) = <<1, 2>>
    /\ cs._cachedMeasurements[1].separatorWidth > 0
    /\ cs._cachedMeasurements[1].actionAreaContentBoxWidth = 1000
    /\ trace = <<>>

----------------------------------------------------------------------------
(* The room the action area needs *)

\* the primary commands that are displayed in the action area
DisplayedPrimary == {id \in ActionAreaPrimary : dom.display[id] = ""}

\* the measured widths of the displayed primary commands, and of the overflow
\* button if it is displayed
ActionAreaNeeds ==
    SeqSum([i \in DOMAIN cs._primaryCommands |->
               IF cs._primaryCommands[i] \in DisplayedPrimary
               THEN _getCommandWidth(World, cs._primaryCommands[i]) ELSE 0])
        + (IF dom.overflowButton # "none"
           THEN cs._cachedMeasurements[1].overflowButtonWidth ELSE 0)

\* C35: after a layout that leaves a primary command in the action area, the
\* measured widths of the commands displayed there, and of the overflow
\* button if it is displayed, are together at most the available width that
\* was measured.
C35_KeptFits ==
    (LayoutDone /\ ActionAreaPrimary # {}) => ActionAreaNeeds <= AvailableWidth

\* two commands and the overflow button fill the action area, and a command
\* has overflowed
C35_Witness ==
    /\ LayoutDone
    /\ Cardinality(DisplayedPrimary) = 2
    /\ OverflowedPrimary # {}
    /\ dom.overflowButton = ""
    /\ ActionAreaNeeds = AvailableWidth

----------------------------------------------------------------------------
(* The overflow button and the entries of the overflow area *)

\* the entries of the overflow area that are displayed
VisibleEntries == {i \in DOMAIN dom.overflowArea : dom.overflowArea[i].display # "none"}

\* C36: after a layout the overflow button is displayed exactly if the
\* overflow area has an entry that is displayed.
C36_OverflowButtonIffEntries ==
    LayoutDone => (dom.overflowButton # "none" <=> VisibleEntries # {})

\* the half of it that holds: with the overflow button hidden, no entry
HiddenButtonNoEntries ==
    (LayoutDone /\ dom.overflowButton = "none") => dom.overflowArea = <<>>

----------------------------------------------------------------------------
(* The commands that are hidden *)

\* the commands of the surface whose hidden flag is set
HiddenCommands ==
    {id \in Range(cs._primaryCommands) \cup Range(cs._secondaryCommands) :
        Command(World, id).hidden}

\* C37: after a layout a command whose hidden flag is set is not displayed in
\* the action area, and no entry of the overflow area that is displayed was
\* projected from it.
C37_HiddenNeverShown ==
    LayoutDone =>
        \A id \in HiddenCommands :
            /\ dom.display[id] = "none"
            /\ \A i \in VisibleEntries : dom.overflowArea[i]._originalICommand # id

\* the part of it that holds: a hidden command is not displayed in the action
\* area, and a hidden secondary command has no entry
HiddenNotInActionArea ==
    LayoutDone =>
        \A id \in HiddenCommands :
            /\ dom.display[id] = "none"
            /\ id \in Range(cs._secondaryCommands) =>
                   \A i \in DOMAIN dom.overflowArea : dom.overflowArea[i]._originalICommand # id
----------------------------------------------------------------------------
(* The rendering specification: a surface is constructed in or out of the   *)
(* document, opened and closed with handlers that may veto, disposed, and   *)
(* its closedDisplayMode, data and layout are changed in between            *)

InitRender ==
    \E inDocument \in BOOLEAN, isOpened \in BOOLEAN :
        Start(constructor(Before(Host(inDocument, 1000), SnapshotPool, <<<<1>>>>),
                          Options(isOpened, defaultClosedDisplayMode)))

\* the closed display modes that are assigned
RenderDisplayModes == {"compact", "full"}

\* a second command is appended to the data
AppendCommand == Len(DataItems(World)) = 1 /\ InsertItem(2, 2)

NextRender ==
    \/ CallOpen
    \/ CallClose
    \/ DisposeOnce
    \/ \E canceled \in BOOLEAN : BeforeShowHandled(canceled)
    \/ AfterShowHandled
    \/ \E canceled \in BOOLEAN : BeforeHideHandled(canceled)
    \/ AfterHideHandled
    \/ \E value \in RenderDisplayModes : SetClosedDisplayMode(value)
    \/ AppendCommand
    \/ RunScheduled
    \/ ForceLayout
    \/ Inserted

SpecRender == InitRender /\ [][NextRender]_vars

\* the first render has happened
FirstRendered == cs._updateDomImpl_renderedState.opened # undefined

\* no transition is in flight and the surface is not disposed
Settled == machine.state \in {"Hidden", "Shown"}

\* C39: once the surface has rendered, whenever no transition is in flight and
\* the surface is not disposed, the root carries exactly one of the opened and
\* closed class markers, and the opened one if and only if opened is true
C39_RenderedAgrees ==
    (FirstRendered /\ Settled) =>
        /\ openedClass \in dom.root <=> opened(World)
        /\ closedClass \in dom.root <=> ~ opened(World)

\* a surface that was opened and closed again, after a vetoed close, with its
\* display mode and its data changed, rests closed
C39_Witness ==
    /\ FirstRendered
    /\ machine.state = "Hidden"
    /\ ~ opened(World)
    /\ closedClass \in dom.root
    /\ \E i \in DOMAIN trace : IsEvent(trace[i], "aftershow")
    /\ \E i \in DOMAIN trace : IsEvent(trace[i], "afterhide")
    /\ cs._closedDisplayMode = Some("full")
    /\ Len(DataItems(World)) = 2
    /\ cs._nextLayoutStage = idle
----------------------------------------------------------------------------
(* The separators that stay visible in the action area *)

\* the types of the primary commands displayed in the action area, in order
VisibleTypes ==
    LET visible == SelectSeq(cs._primaryCommands, LAMBDA id : id \in DisplayedPrimary)
    IN  [i \in DOMAIN visible |-> Command(World, visible[i]).type]

\* no separator is first or last, and no two are adjacent
SeparatorsInside(types) ==
    /\ types # <<>> => (types[1] # typeSeparator /\ types[Len(types)] # typeSeparator)
    /\ \A i \in 1 .. Len(types) - 1 :
           ~ (types[i] = typeSeparator /\ types[i + 1] = typeSeparator)

\* C40: after every layout pass the visible commands of the action area do not
\* begin with a separator, do not end with one and hold no two adjacent ones,
\* also when primary commands are hidden or have overflowed
C40_VisibleSeparators ==
    cs._nextLayoutStage = idle => SeparatorsInside(VisibleTypes)

\* the same, of the commands the action area holds whatever their hidden flag:
\* the list _hideSeparatorsIfNeeded is given
PlacedTypes ==
    LET placed == SelectSeq(cs._primaryCommands,
                            LAMBDA id : id \in ActionAreaPrimary /\
                                        (dom.display[id] = "" \/ Command(World, id).hidden))
    IN  [i \in DOMAIN placed |-> Command(World, placed[i]).type]

PlacedSeparators ==
    cs._nextLayoutStage = idle => SeparatorsInside(PlacedTypes)
====
